---- MODULE Spec2Model ----
(***************************************************************************)
(* A model of the Python-distribution embedding pipeline of                *)
(* xtask/src/embed_python/mod.rs: distribution resolution                  *)
(* (StandaloneDistribution::from_directory and parse_python_json), the     *)
(* header walk (walk_tree_files), the packaging policy, the resource       *)
(* collector's __file__ audit, the resource-location conversions and the   *)
(* stages of generate_python_embedding_artifacts.                          *)
(*                                                                         *)
(* Paths are sequences of path components relative to the distribution     *)
(* root (dist_dir); Path::join is sequence concatenation.                  *)
(***************************************************************************)
EXTENDS Integers, Sequences, FiniteSets, TLC

VARIABLES
    fs,         \* the filesystem below dist_dir: path -> "file" | "dir" | "dirlink"
    pc,         \* position inside from_directory / the running operation
    reached,    \* the steps of from_directory entered so far
    err,        \* the error the operation returned ("" while none)
    buf,        \* parse_python_json: the bytes read from PYTHON.json, as a document
    pi,         \* the deserialized PythonJsonMain
    dist,       \* the StandaloneDistribution under construction / returned
    walks,      \* the sequences walk_tree_files returned, one per invocation
    loc,        \* a ConcreteResourceLocation
    converted,  \* AbstractResourceLocation::from(&loc), once taken
    string,     \* a string, given or the one loc.to_string() returned
    parsed,     \* ConcreteResourceLocation::try_from(string), once called
    policy,     \* a PythonPackagingPolicy
    log,        \* the register_broken_extension calls made on policy, in order
    exempt_log, \* the register_no_bytecode_module calls made on policy, in order
    build,      \* the locals of generate_python_embedding_artifacts and its position
    collector,  \* a PythonResourceCollector
    audit,      \* what find_dunder_file returned, once called
    context     \* to_embedded_python_context: its position, file_seen and the warnings logged

distVars == <<fs, pc, reached, err, buf, pi, dist>>
walkVars == <<walks>>
locVars == <<loc, converted, string, parsed>>
policyVars == <<policy, log, exempt_log>>
auditVars == <<collector, audit, context>>
buildVars == <<build>>

vars == <<fs, pc, reached, err, buf, pi, dist, walks, loc, converted, string, parsed, policy, log, exempt_log,
          collector, audit, context, build>>

-----------------------------------------------------------------------------
(* Bounds of the model.                                                    *)

\* longest build_info.core.objs list of a manifest
MaxObjs == 1
\* longest build_info.core.links list of a manifest
MaxLinks == 2
\* how many times walk_tree_files is invoked on one tree
MaxWalks == 2
\* longest prefix of a ConcreteResourceLocation::RelativePath
MaxPrefixLen == 3
MaxSuffixLen == 1
\* how many register_broken_extension calls one policy receives
MaxRegistrations == 2
\* how many register_no_bytecode_module calls one policy receives
MaxExemptions == 2

-----------------------------------------------------------------------------
(* Generic helpers.                                                        *)

SeqsUpTo(S, n) == UNION {[1..k -> S] : k \in 0..n}

IsPrefix(p, q) == Len(p) <= Len(q) /\ SubSeq(q, 1, Len(p)) = p

Prefixes(p) == {SubSeq(p, 1, k) : k \in 0..Len(p)}

EmptyMap == [k \in {} |-> <<>>]

\* BTreeMap::insert: a later insert of the same key replaces the value
MapInsert(m, k, v) == [x \in DOMAIN m \cup {k} |-> IF x = k THEN v ELSE m[x]]

MapValues(m) == {m[k] : k \in DOMAIN m}

None == [some |-> FALSE, v |-> <<>>]
Some(x) == [some |-> TRUE, v |-> x]

-----------------------------------------------------------------------------
(* The filesystem.                                                         *)

\* a filesystem with the given leaves (path -> kind); every ancestor is a directory
MkFs(leaves) ==
    LET all == UNION {Prefixes(p) : p \in DOMAIN leaves}
    IN  [p \in all |-> IF p \in DOMAIN leaves THEN leaves[p] ELSE "dir"]

\* Path::exists: follows symbolic links, so a link whose target is missing
\* does not exist
Exists(p) == p \in DOMAIN fs /\ fs[p] # "badlink"

\* Path::is_dir: follows symbolic links
IsDir(p) == Exists(p) /\ fs[p] \in {"dir", "dirlink"}

\* the file names std::fs::read_dir yields for directory d
EntryNames(d) == {p[Len(p)] : p \in {q \in DOMAIN fs : Len(q) = Len(d) + 1 /\ IsPrefix(d, q)}}

-----------------------------------------------------------------------------
(* File names as bytes: OsStr comparison is bytewise.                      *)

\* the printable ASCII characters in code order, " " (32) first
Ascii ==
    << " ", "!", "\"", "#", "$", "%", "&", "'", "(", ")", "*", "+", ",", "-", ".", "/",
       "0", "1", "2", "3", "4", "5", "6", "7", "8", "9", ":", ";", "<", "=", ">", "?",
       "@", "A", "B", "C", "D", "E", "F", "G", "H", "I", "J", "K", "L", "M", "N", "O",
       "P", "Q", "R", "S", "T", "U", "V", "W", "X", "Y", "Z", "[", "\\", "]", "^", "_",
       "grave", "a", "b", "c", "d", "e", "f", "g", "h", "i", "j", "k", "l", "m", "n", "o",
       "p", "q", "r", "s", "t", "u", "v", "w", "x", "y", "z", "{", "|", "}", "~" >>

ByteOf(c) == 31 + CHOOSE i \in 1..Len(Ascii) : Ascii[i] = c

\* the spelling of the file names that occur below the include directory
Spell ==
    [n \in {"Python.h", "abstract.h", "object.h", "core.h", "cpython", "internal", "ext", "old.h"} |->
        CASE n = "Python.h"   -> <<"P", "y", "t", "h", "o", "n", ".", "h">>
          [] n = "abstract.h" -> <<"a", "b", "s", "t", "r", "a", "c", "t", ".", "h">>
          [] n = "object.h"   -> <<"o", "b", "j", "e", "c", "t", ".", "h">>
          [] n = "core.h"     -> <<"c", "o", "r", "e", ".", "h">>
          [] n = "cpython"    -> <<"c", "p", "y", "t", "h", "o", "n">>
          [] n = "internal"   -> <<"i", "n", "t", "e", "r", "n", "a", "l">>
          [] n = "ext"        -> <<"e", "x", "t">>
          [] n = "old.h"      -> <<"o", "l", "d", ".", "h">>]

RECURSIVE BytesLess(_, _)
\* <[u8] as Ord>::cmp(a, b) = Less: lexicographic, a proper prefix first
BytesLess(a, b) ==
    IF b = <<>> THEN FALSE
    ELSE IF a = <<>> THEN TRUE
    ELSE IF ByteOf(Head(a)) # ByteOf(Head(b)) THEN ByteOf(Head(a)) < ByteOf(Head(b))
    ELSE BytesLess(Tail(a), Tail(b))

\* a.file_name().cmp(b.file_name()) = Less
FileNameLess(a, b) == BytesLess(Spell[a], Spell[b])

RECURSIVE InsertSorted(_, _)
InsertSorted(sorted, n) ==
    IF sorted = <<>> THEN <<n>>
    ELSE IF FileNameLess(n, Head(sorted)) THEN <<n>> \o sorted
    ELSE <<Head(sorted)>> \o InsertSorted(Tail(sorted), n)

RECURSIVE SortEntries(_)
SortEntries(names) ==
    IF names = <<>> THEN <<>>
    ELSE InsertSorted(SortEntries(SubSeq(names, 1, Len(names) - 1)), names[Len(names)])

\* a walk that keeps the order read_dir returned
SortByFileName_Unsorted(names) == names

\* WalkDir::sort_by(|a, b| a.file_name().cmp(b.file_name())) on the entries of one directory
SortByFileName(names) == SortEntries(names)

-----------------------------------------------------------------------------
(* walk_tree_files.                                                        *)

PermsOf(S) == {s \in [1..Cardinality(S) -> S] : \A i, j \in 1..Cardinality(S) : s[i] = s[j] => i = j}

\* the directories walkdir descends into at or below root (symbolic links are not followed)
WalkedDirs(root) == {p \in DOMAIN fs : IsPrefix(root, p) /\ fs[p] = "dir"}

RECURSIVE OrdersOver(_)
OrdersOver(dirs) ==
    IF dirs = {} THEN {EmptyMap}
    ELSE LET d == CHOOSE x \in dirs : TRUE
         IN  {MapInsert(o, d, s) : o \in OrdersOver(dirs \ {d}), s \in PermsOf(EntryNames(d))}

\* every order in which read_dir may return the entries of the directories below root
ReadDirOrders(root) == OrdersOver(WalkedDirs(root))

RECURSIVE WalkDir(_, _), WalkEntries(_, _, _)
\* the entries walkdir yields at and below p, parent before children
WalkDir(p, order) ==
    IF fs[p] = "dir" THEN <<p>> \o WalkEntries(p, SortByFileName(order[p]), order) ELSE <<p>>

WalkEntries(d, names, order) ==
    IF names = <<>> THEN <<>>
    ELSE WalkDir(Append(d, Head(names)), order) \o WalkEntries(d, Tail(names), order)

IsNotDir(p) == ~IsDir(p)

\* a walk that keeps the directories
walk_tree_files_KeepDirs(path, order) == WalkDir(path, order)

\* walk_tree_files(path): the walk, without the entries whose path is a directory
walk_tree_files(path, order) == SelectSeq(WalkDir(path, order), IsNotDir)

-----------------------------------------------------------------------------
(* The manifest python/PYTHON.json.                                        *)

PythonPath == <<"python">>
PythonJsonPath == <<"python", "PYTHON.json">>
IncludeRoot == <<"python", "install", "include">>

\* relative paths a manifest may name in build_info.core.objs
ObjFiles == {<<"build", "a.o">>, <<"build", "b.o">>}

\* LinkEntry: the entries a manifest may list in build_info.core.links
LinkEntries ==
    { [name |-> "x", path_static |-> Some(<<"build", "lib", "libx.a">>), path_dynamic |-> None],
      [name |-> "x", path_static |-> Some(<<"install", "lib", "libx.a">>), path_dynamic |-> None],
      [name |-> "y", path_static |-> None, path_dynamic |-> Some(<<"install", "lib", "liby.so">>)] }

\* python_paths: every table with or without the "include" and the "stdlib" entry
PathTables ==
    { [k \in ks |-> IF k = "include" THEN <<"install", "include">>
                    ELSE <<"install", "lib", "python3.12">>] : ks \in SUBSET {"include", "stdlib"} }

\* PythonJsonMain, the fields from_directory reads
Manifests ==
    [ objs : SeqsUpTo(ObjFiles, MaxObjs),
      links : SeqsUpTo(LinkEntries, MaxLinks),
      python_paths : PathTables,
      python_exe : {<<"install", "bin", "python3">>},
      inittab_object : {<<"build", "inittab.o">>},
      tcl_library_path : {None, Some(<<"install", "lib", "tcl">>)} ]

NoManifest ==
    [ objs |-> <<>>, links |-> <<>>, python_paths |-> EmptyMap, python_exe |-> <<>>,
      inittab_object |-> <<>>, tcl_library_path |-> None ]

\* the top-level "version" member of the JSON object: absent, a number or a string
VersionValues ==
    { [t |-> "absent", v |-> ""], [t |-> "number", v |-> "7"] }
        \cup { [t |-> "string", v |-> v] : v \in {"6", "7", "8"} }

\* the content of PYTHON.json: syntax is what serde_json::from_slice::<Value> makes of
\* it, schema_ok whether the object has the members and types of PythonJsonMain
Documents ==
    { [syntax |-> "garbage", version |-> [t |-> "absent", v |-> ""], schema_ok |-> FALSE, main |-> NoManifest],
      [syntax |-> "array", version |-> [t |-> "absent", v |-> ""], schema_ok |-> FALSE, main |-> NoManifest] }
    \cup { [syntax |-> "object", version |-> v, schema_ok |-> FALSE, main |-> NoManifest] : v \in VersionValues }
    \cup { [syntax |-> "object", version |-> [t |-> "string", v |-> "7"], schema_ok |-> TRUE, main |-> m] :
              m \in Manifests }
    \cup { [syntax |-> "object", version |-> [t |-> "string", v |-> v], schema_ok |-> TRUE, main |-> m] :
              v \in {"6", "8"}, m \in {x \in Manifests : x.objs = <<>> /\ x.links = <<>>} }

NoDocument == [syntax |-> "unread", version |-> [t |-> "absent", v |-> ""], schema_ok |-> FALSE, main |-> NoManifest]

\* a version check that lets every version string through
VersionSupported_Any(version) == TRUE

\* parse_python_json: version != "7" bails
VersionSupported(version) == version = "7"

\* a parser that goes on to read and parse without testing path.exists()
VersionCheck_NoExistenceTest(exists, doc) ==
    IF doc.syntax = "garbage" THEN "json_syntax"
    ELSE IF doc.syntax # "object" THEN "not_object"
    ELSE IF doc.version.t = "absent" THEN "version_absent"
    ELSE IF doc.version.t # "string" THEN "version_not_string"
    ELSE IF ~VersionSupported(doc.version.v) THEN "version_mismatch"
    ELSE ""

\* parse_python_json up to the version check: the error it returns, "" for none
VersionCheck(exists, doc) ==
    IF ~exists THEN "not_found"
    ELSE IF doc.syntax = "garbage" THEN "json_syntax"
    ELSE IF doc.syntax # "object" THEN "not_object"
    ELSE IF doc.version.t = "absent" THEN "version_absent"
    ELSE IF doc.version.t # "string" THEN "version_not_string"
    ELSE IF ~VersionSupported(doc.version.v) THEN "version_mismatch"
    ELSE ""

\* a path table that answers a missing key with the directory of the distribution
python_paths_get_OrRoot(python_paths, key) ==
    IF key \in DOMAIN python_paths THEN Some(python_paths[key]) ELSE Some(<<"install">>)

\* pi.python_paths.get(key)
python_paths_get(python_paths, key) ==
    IF key \in DOMAIN python_paths THEN Some(python_paths[key]) ELSE None

\* a resolution that takes the dynamic path for the static library of an entry
\* without a static path
to_library_dependency_DynamicAsStatic(entry, python_path) ==
    [ name |-> entry.name,
      static_library |-> IF entry.path_static.some THEN Some(python_path \o entry.path_static.v)
                         ELSE IF entry.path_dynamic.some THEN Some(python_path \o entry.path_dynamic.v)
                         ELSE None,
      static_filename |-> IF entry.path_static.some
                          THEN Some(<<entry.path_static.v[Len(entry.path_static.v)]>>) ELSE None,
      dynamic_library |-> IF entry.path_dynamic.some THEN Some(python_path \o entry.path_dynamic.v) ELSE None,
      dynamic_filename |-> IF entry.path_dynamic.some
                           THEN Some(<<entry.path_dynamic.v[Len(entry.path_dynamic.v)]>>) ELSE None ]

\* LinkEntry::to_library_dependency
to_library_dependency(entry, python_path) ==
    [ name |-> entry.name,
      static_library |-> IF entry.path_static.some THEN Some(python_path \o entry.path_static.v) ELSE None,
      static_filename |-> IF entry.path_static.some
                          THEN Some(<<entry.path_static.v[Len(entry.path_static.v)]>>) ELSE None,
      dynamic_library |-> IF entry.path_dynamic.some THEN Some(python_path \o entry.path_dynamic.v) ELSE None,
      dynamic_filename |-> IF entry.path_dynamic.some
                           THEN Some(<<entry.path_dynamic.v[Len(entry.path_dynamic.v)]>>) ELSE None ]

-----------------------------------------------------------------------------
(* StandaloneDistribution::from_directory, step by step.                   *)

NoDist ==
    [ objs_core |-> EmptyMap, libraries |-> EmptyMap, includes |-> EmptyMap,
      stdlib_path |-> None, python_exe |-> None, inittab_object |-> None,
      tcl_library_path |-> None ]

\* a root allow-list that also lets a README through
RootAllowed_Open == {".DS_Store", "python", "README"}

RootAllowed == {".DS_Store", "python"}
\* an allow-list of python/ that lets .DS_Store through as the root does
PythonAllowed_WithDsStore ==
    {"build", "install", "lib", "licenses", "LICENSE.rst", "PYTHON.json", ".DS_Store"}
PythonAllowed == {"build", "install", "lib", "licenses", "LICENSE.rst", "PYTHON.json"}

Goto(step) == pc' = step /\ reached' = reached \cup {step} /\ err' = err
Fail(e) == pc' = "failed" /\ err' = e /\ reached' = reached
Panic == pc' = "panicked" /\ err' = err /\ reached' = reached

\* for entry in read_dir(dist_dir)?: the first entry that is neither .DS_Store nor
\* python ends the run
RootScan ==
    /\ pc = "root_scan"
    /\ IF ~IsDir(<<>>) THEN Fail("io")
       ELSE IF EntryNames(<<>>) \subseteq RootAllowed THEN Goto("python_scan")
       ELSE Fail("unexpected_root_entry")
    /\ UNCHANGED <<fs, buf, pi, dist>>
    /\ UNCHANGED <<walkVars, locVars, policyVars, auditVars, buildVars>>

\* for entry in read_dir(&python_path)?
PythonScan ==
    /\ pc = "python_scan"
    /\ IF ~IsDir(PythonPath) THEN Fail("io")
       ELSE IF EntryNames(PythonPath) \subseteq PythonAllowed THEN Goto("parse")
       ELSE Fail("unexpected_python_entry")
    /\ UNCHANGED <<fs, buf, pi, dist>>
    /\ UNCHANGED <<walkVars, locVars, policyVars, auditVars, buildVars>>

\* parse_python_json: path.exists(), std::fs::read, the generic parse and the version
\* check; doc is what the file holds
ParseVersion ==
    /\ pc = "parse"
    /\ \E doc \in Documents :
          LET e == VersionCheck(Exists(PythonJsonPath), doc)
          IN  /\ buf' = IF Exists(PythonJsonPath) THEN doc ELSE NoDocument
              /\ IF e = "" THEN Goto("deserialize") ELSE Fail(e)
    /\ UNCHANGED <<fs, pi, dist>>
    /\ UNCHANGED <<walkVars, locVars, policyVars, auditVars, buildVars>>

\* parse_python_json: serde_json::from_slice::<PythonJsonMain>(&buf)
Deserialize ==
    /\ pc = "deserialize"
    /\ IF buf.schema_ok
       THEN pi' = buf.main /\ Goto("objs")
       ELSE pi' = pi /\ Fail("schema")
    /\ UNCHANGED <<fs, buf, dist>>
    /\ UNCHANGED <<walkVars, locVars, policyVars, auditVars, buildVars>>

RECURSIVE InsertObjs(_, _)
InsertObjs(m, objs) ==
    IF objs = <<>> THEN m
    ELSE InsertObjs(MapInsert(m, Head(objs), PythonPath \o Head(objs)), Tail(objs))

\* for obj in &pi.build_info.core.objs
CollectObjs ==
    /\ pc = "objs"
    /\ dist' = [dist EXCEPT !.objs_core = InsertObjs(@, pi.objs)]
    /\ Goto("links")
    /\ UNCHANGED <<fs, buf, pi>>
    /\ UNCHANGED <<walkVars, locVars, policyVars, auditVars, buildVars>>

RECURSIVE InsertLibraries(_, _)
InsertLibraries(m, links) ==
    IF links = <<>> THEN m
    ELSE LET depends == to_library_dependency(Head(links), PythonPath)
         IN  InsertLibraries(IF depends.static_library.some
                             THEN MapInsert(m, depends.name, depends.static_library.v)
                             ELSE m,
                             Tail(links))

\* for entry in &pi.build_info.core.links
CollectLinks ==
    /\ pc = "links"
    /\ dist' = [dist EXCEPT !.libraries = InsertLibraries(@, pi.links)]
    /\ Goto("includes")
    /\ UNCHANGED <<fs, buf, pi>>
    /\ UNCHANGED <<walkVars, locVars, policyVars, auditVars, buildVars>>

RECURSIVE InsertIncludes(_, _, _)
InsertIncludes(m, root, entries) ==
    IF entries = <<>> THEN m
    ELSE InsertIncludes(MapInsert(m, SubSeq(Head(entries), Len(root) + 1, Len(Head(entries))), Head(entries)),
                        root, Tail(entries))

\* the include path and the walk over it; walkdir's error for a missing root is
\* unwrapped with expect
WalkIncludes ==
    /\ pc = "includes"
    /\ IF ~python_paths_get(pi.python_paths, "include").some
       THEN dist' = dist /\ Fail("include_undefined")
       ELSE LET include_path == PythonPath \o python_paths_get(pi.python_paths, "include").v
            IN  IF ~Exists(include_path)
                THEN dist' = dist /\ Panic
                ELSE \E order \in ReadDirOrders(include_path) :
                        /\ dist' = [dist EXCEPT !.includes =
                                      InsertIncludes(@, include_path, walk_tree_files(include_path, order))]
                        /\ Goto("stdlib")
    /\ UNCHANGED <<fs, buf, pi>>
    /\ UNCHANGED <<walkVars, locVars, policyVars, auditVars, buildVars>>

\* the stdlib path, the inittab object, the executable, and Ok(Self {..})
Assemble ==
    /\ pc = "stdlib"
    /\ IF ~python_paths_get(pi.python_paths, "stdlib").some
       THEN dist' = dist /\ Fail("stdlib_undefined")
       ELSE /\ dist' = [dist EXCEPT
                          !.stdlib_path = Some(PythonPath \o python_paths_get(pi.python_paths, "stdlib").v),
                          !.inittab_object = Some(PythonPath \o pi.inittab_object),
                          !.python_exe = Some(PythonPath \o pi.python_exe),
                          !.tcl_library_path = IF pi.tcl_library_path.some
                                               THEN Some(PythonPath \o pi.tcl_library_path.v)
                                               ELSE None]
            /\ Goto("done")
    /\ UNCHANGED <<fs, buf, pi>>
    /\ UNCHANGED <<walkVars, locVars, policyVars, auditVars, buildVars>>

from_directory ==
    \/ RootScan
    \/ PythonScan
    \/ ParseVersion
    \/ Deserialize
    \/ CollectObjs
    \/ CollectLinks
    \/ WalkIncludes
    \/ Assemble

\* the leaves a distribution directory may hold: entries of the root, entries of
\* python/, the files a manifest names, and headers
RootExtras == {<<".DS_Store">>, <<"README">>}
PythonExtras == {<<"python", ".DS_Store">>, <<"python", "LICENSE.rst">>, <<"python", "PYTHON.json">>}
AllBuildFiles ==
    { <<"python", "build", "a.o">>, <<"python", "build", "b.o">>, <<"python", "build", "inittab.o">>,
      <<"python", "build", "lib", "libx.a">>, <<"python", "install", "lib", "libx.a">>,
      <<"python", "install", "lib", "liby.so">>, <<"python", "install", "bin", "python3">>,
      <<"python", "install", "lib", "python3.12">>, <<"python", "install", "lib", "tcl">> }
BuildTrees == {AllBuildFiles, AllBuildFiles \ {<<"python", "build", "a.o">>}, {}}
HeaderTrees ==
    { {},
      {IncludeRoot \o <<"abstract.h">>, IncludeRoot \o <<"Python.h">>, IncludeRoot \o <<"cpython", "object.h">>},
      {IncludeRoot \o <<"abstract.h">>, IncludeRoot \o <<"old.h">>, IncludeRoot \o <<"cpython", "internal">>} }

\* leaves that are directories, leaves that are symbolic links to directories,
\* and leaves that are symbolic links to nothing
DirLeaves == {<<"python", "install", "lib", "python3.12">>, <<"python", "install", "lib", "tcl">>,
              IncludeRoot \o <<"cpython", "internal">>}
LinkLeaves == {IncludeRoot \o <<"ext">>}
BadLinkLeaves == {IncludeRoot \o <<"old.h">>}

Leaves(paths) ==
    [p \in paths |-> IF p \in DirLeaves THEN "dir"
                  ELSE IF p \in LinkLeaves THEN "dirlink"
                  ELSE IF p \in BadLinkLeaves THEN "badlink"
                  ELSE "file"]

\* the values of the variables an operation does not use
DistIdle ==
    /\ fs = MkFs(EmptyMap) /\ pc = "idle" /\ reached = {} /\ err = ""
    /\ buf = NoDocument /\ pi = NoManifest /\ dist = NoDist
WalkIdle == walks = <<>>
LocIdle == loc = "none" /\ converted = "none" /\ string = "none" /\ parsed = "none"
PolicyIdle == policy = "none" /\ log = <<>> /\ exempt_log = <<>>
AuditIdle ==
    /\ collector = "none" /\ audit = [done |-> FALSE, ok |-> TRUE, names |-> {}]
    /\ context = [pc |-> "idle", file_seen |-> FALSE, warnings |-> <<>>]
BuildIdle == build = [pc |-> "idle"]

InitDist ==
    /\ \E rx \in SUBSET RootExtras, px \in SUBSET PythonExtras, bt \in BuildTrees, ht \in HeaderTrees :
          fs = MkFs(Leaves(rx \cup px \cup bt \cup ht))
    /\ pc = "root_scan"
    /\ reached = {"root_scan"}
    /\ err = ""
    /\ buf = NoDocument
    /\ pi = NoManifest
    /\ dist = NoDist
    /\ WalkIdle /\ LocIdle /\ PolicyIdle /\ AuditIdle /\ BuildIdle

NextDist == from_directory

SpecDist == InitDist /\ [][NextDist]_vars

-----------------------------------------------------------------------------
(* walk_tree_files invoked repeatedly on one include tree.                 *)

\* the entries an include directory may hold
HeaderLeaves ==
    { IncludeRoot \o <<"Python.h">>, IncludeRoot \o <<"abstract.h">>, IncludeRoot \o <<"ext">>,
      IncludeRoot \o <<"cpython", "abstract.h">>, IncludeRoot \o <<"cpython", "object.h">>,
      IncludeRoot \o <<"cpython", "internal">>, IncludeRoot \o <<"cpython", "internal", "core.h">> }

\* one invocation: read_dir returns the entries of each directory in some order
WalkTreeFiles ==
    /\ Len(walks) < MaxWalks
    /\ \E order \in ReadDirOrders(IncludeRoot) :
          walks' = Append(walks, walk_tree_files(IncludeRoot, order))
    /\ UNCHANGED <<distVars, locVars, policyVars, auditVars, buildVars>>

\* the include directory with any of its entries, or a plain file in its place
InitWalk ==
    /\ \/ \E hs \in SUBSET HeaderLeaves : fs = MkFs([p \in hs \cup {IncludeRoot} |->
                                                       IF p = IncludeRoot THEN "dir" ELSE Leaves(hs)[p]])
       \/ fs = MkFs([p \in {IncludeRoot} |-> "file"])
    /\ pc = "idle" /\ reached = {} /\ err = ""
    /\ buf = NoDocument /\ pi = NoManifest /\ dist = NoDist
    /\ WalkIdle /\ LocIdle /\ PolicyIdle /\ AuditIdle /\ BuildIdle

NextWalk == WalkTreeFiles

SpecWalk == InitWalk /\ [][NextWalk]_vars

-----------------------------------------------------------------------------
(* Resource locations.                                                     *)

\* ConcreteResourceLocation; the prefix of a RelativePath is a string, character
\* by character
InMemory == [tag |-> "InMemory", prefix |-> <<>>]
RelativePath(prefix) == [tag |-> "RelativePath", prefix |-> prefix]

PrefixChars == {"l", "i", "b", ":"}

ConcreteLocations == {InMemory} \cup {RelativePath(p) : p \in SeqsUpTo(PrefixChars, MaxPrefixLen)}

\* a conversion that takes every location for an in-memory one
AbstractFrom_AlwaysInMemory(l) == "InMemory"

\* impl From<&ConcreteResourceLocation> for AbstractResourceLocation
AbstractFrom(l) ==
    CASE l.tag = "InMemory" -> "InMemory"
      [] l.tag = "RelativePath" -> "RelativePath"

Convert ==
    /\ converted = "none"
    /\ converted' = AbstractFrom(loc)
    /\ UNCHANGED <<loc, string, parsed, distVars, walkVars, policyVars, auditVars, buildVars>>

\* the string literals of the two conversions
InMemoryText == <<"i", "n", "-", "m", "e", "m", "o", "r", "y">>
FilesystemRelativeText ==
    <<"f", "i", "l", "e", "s", "y", "s", "t", "e", "m", "-", "r", "e", "l", "a", "t", "i", "v", "e">>

\* impl ToString for ConcreteResourceLocation
to_string(l) ==
    CASE l.tag = "InMemory" -> InMemoryText
      [] l.tag = "RelativePath" -> FilesystemRelativeText \o <<":">> \o l.prefix

\* the positions of sep in value
Positions(value, sep) == {i \in 1..Len(value) : value[i] = sep}

\* value.split(sep): a split at every separator
RECURSIVE splitn2_Every(_, _)
splitn2_Every(value, sep) ==
    IF Positions(value, sep) = {} THEN <<value>>
    ELSE LET i == CHOOSE j \in Positions(value, sep) : \A k \in Positions(value, sep) : j <= k
         IN  <<SubSeq(value, 1, i - 1)>> \o splitn2_Every(SubSeq(value, i + 1, Len(value)), sep)

\* value.splitn(2, sep): a split at the first separator, the rest kept whole
splitn2(value, sep) ==
    IF Positions(value, sep) = {} THEN <<value>>
    ELSE LET i == CHOOSE j \in Positions(value, sep) : \A k \in Positions(value, sep) : j <= k
         IN  <<SubSeq(value, 1, i - 1), SubSeq(value, i + 1, Len(value))>>

NotParsed == [state |-> "none", value |-> InMemory, msg |-> <<>>]
Ok(l) == [state |-> "ok", value |-> l, msg |-> <<>>]
Err(value) == [state |-> "err", value |-> InMemory, msg |-> value]

\* impl TryFrom<&str> for ConcreteResourceLocation
try_from(value) ==
    IF value = InMemoryText THEN Ok(InMemory)
    ELSE LET parts == splitn2(value, ":")
         IN  IF Len(parts) # 2 THEN Err(value)
             ELSE IF parts[1] = FilesystemRelativeText THEN Ok(RelativePath(parts[2]))
             ELSE Err(value)

\* strings to parse: a head that is, or is close to, one of the literals,
\* followed by a few characters
TextHeads ==
    { <<>>, InMemoryText, <<"I">> \o Tail(InMemoryText), FilesystemRelativeText,
      FilesystemRelativeText \o <<":">>, Tail(FilesystemRelativeText) \o <<":">> }
Texts == {h \o t : h \in TextHeads, t \in SeqsUpTo(PrefixChars, MaxSuffixLen)}

\* loc.to_string()
LocToString ==
    /\ string.origin = "given" /\ parsed = NotParsed
    /\ string' = [origin |-> "to_string", chars |-> to_string(loc)]
    /\ UNCHANGED <<loc, converted, parsed, distVars, walkVars, policyVars, auditVars, buildVars>>

\* ConcreteResourceLocation::try_from(string)
LocTryFrom ==
    /\ parsed = NotParsed
    /\ parsed' = try_from(string.chars)
    /\ UNCHANGED <<loc, converted, string, distVars, walkVars, policyVars, auditVars, buildVars>>

InitLoc ==
    /\ loc \in ConcreteLocations
    /\ converted = "none"
    /\ string \in {[origin |-> "given", chars |-> c] : c \in Texts}
    /\ parsed = NotParsed
    /\ DistIdle /\ WalkIdle /\ PolicyIdle /\ AuditIdle /\ BuildIdle

NextLoc ==
    \/ Convert
    \/ LocToString
    \/ LocTryFrom

SpecLoc == InitLoc /\ [][NextLoc]_vars

-----------------------------------------------------------------------------
(* PythonPackagingPolicy.                                                  *)

\* a location field the constructor leaves out, and Option::None for the fallback
UnsetLocation == [tag |-> "Unset", prefix |-> <<>>]
NoLocation == [tag |-> "None", prefix |-> <<>>]

\* a default that writes bytecode at level 1 in place of level 0
DefaultPolicy_LevelOne ==
    [ preferred_extension_module_variants |-> EmptyMap,
      resources_location |-> UnsetLocation,
      resources_location_fallback |-> UnsetLocation,
      allow_in_memory_shared_library_loading |-> FALSE,
      allow_files |-> FALSE,
      file_scanner_emit_files |-> FALSE,
      file_scanner_classify_files |-> TRUE,
      include_classified_resources |-> TRUE,
      include_distribution_sources |-> TRUE,
      include_non_distribution_sources |-> TRUE,
      include_distribution_resources |-> FALSE,
      include_test |-> FALSE,
      include_file_resources |-> FALSE,
      broken_extensions |-> EmptyMap,
      bytecode_optimize_level_zero |-> FALSE,
      bytecode_optimize_level_one |-> TRUE,
      bytecode_optimize_level_two |-> FALSE,
      no_bytecode_modules |-> {} ]

\* impl Default for PythonPackagingPolicy
DefaultPolicy ==
    [ preferred_extension_module_variants |-> EmptyMap,
      resources_location |-> UnsetLocation,
      resources_location_fallback |-> UnsetLocation,
      allow_in_memory_shared_library_loading |-> FALSE,
      allow_files |-> FALSE,
      file_scanner_emit_files |-> FALSE,
      file_scanner_classify_files |-> TRUE,
      include_classified_resources |-> TRUE,
      include_distribution_sources |-> TRUE,
      include_non_distribution_sources |-> TRUE,
      include_distribution_resources |-> FALSE,
      include_test |-> FALSE,
      include_file_resources |-> FALSE,
      broken_extensions |-> EmptyMap,
      bytecode_optimize_level_zero |-> TRUE,
      bytecode_optimize_level_one |-> FALSE,
      bytecode_optimize_level_two |-> FALSE,
      no_bytecode_modules |-> {} ]

\* a registration that skips an extension the list already holds
register_broken_extension_IfAbsent(p, target_triple, extension) ==
    LET b == IF target_triple \in DOMAIN p.broken_extensions
             THEN p.broken_extensions
             ELSE MapInsert(p.broken_extensions, target_triple, <<>>)
    IN  IF \E i \in 1..Len(b[target_triple]) : b[target_triple][i] = extension
        THEN [p EXCEPT !.broken_extensions = b]
        ELSE [p EXCEPT !.broken_extensions = [b EXCEPT ![target_triple] = Append(@, extension)]]

\* PythonPackagingPolicy::register_broken_extension
register_broken_extension(p, target_triple, extension) ==
    LET b == IF target_triple \in DOMAIN p.broken_extensions
             THEN p.broken_extensions
             ELSE MapInsert(p.broken_extensions, target_triple, <<>>)
    IN  [p EXCEPT !.broken_extensions = [b EXCEPT ![target_triple] = Append(@, extension)]]

\* a registration that forgets the names registered before
register_no_bytecode_module_Replace(p, name) ==
    [p EXCEPT !.no_bytecode_modules = {name}]

\* PythonPackagingPolicy::register_no_bytecode_module
register_no_bytecode_module(p, name) ==
    [p EXCEPT !.no_bytecode_modules = @ \cup {name}]

\* PythonPackagingPolicy::set_resources_location
set_resources_location(p, location) == [p EXCEPT !.resources_location = location]

\* PythonPackagingPolicy::set_resources_location_fallback
set_resources_location_fallback(p, location) == [p EXCEPT !.resources_location_fallback = location]

\* PythonPackagingPolicy::set_preferred_extension_module_variant
set_preferred_extension_module_variant(p, extension, variant) ==
    [p EXCEPT !.preferred_extension_module_variants = MapInsert(@, extension, variant)]

\* a setter that also turns file resources on
set_allow_in_memory_shared_library_loading_AndFiles(p, value) ==
    [p EXCEPT !.allow_in_memory_shared_library_loading = value, !.allow_files = value]

\* PythonPackagingPolicy::set_allow_in_memory_shared_library_loading
set_allow_in_memory_shared_library_loading(p, value) ==
    [p EXCEPT !.allow_in_memory_shared_library_loading = value]

\* the arguments the operations of a policy are called with
Triples == {"x86_64-unknown-linux-gnu", "x86_64-apple-darwin"}
Extensions == {"_crypt", "readline"}
ModuleNames == {"test.bad_coding", "lib2to3.tests.data.bom"}
Variants == {"default", "static"}

RegisterBrokenExtension ==
    /\ Len(log) < MaxRegistrations
    /\ \E t \in Triples, e \in Extensions :
          /\ policy' = register_broken_extension(policy, t, e)
          /\ log' = Append(log, <<t, e>>)
    /\ UNCHANGED <<exempt_log, distVars, walkVars, locVars, auditVars, buildVars>>

RegisterNoBytecodeModule ==
    /\ Len(exempt_log) < MaxExemptions
    /\ \E n \in ModuleNames :
          /\ policy' = register_no_bytecode_module(policy, n)
          /\ exempt_log' = Append(exempt_log, n)
    /\ UNCHANGED <<log, distVars, walkVars, locVars, auditVars, buildVars>>

SetResourcesLocation ==
    /\ \E l \in {InMemory, RelativePath(<<"l", "i", "b">>)} :
          policy' = set_resources_location(policy, l)
    /\ UNCHANGED <<log, exempt_log, distVars, walkVars, locVars, auditVars, buildVars>>

SetResourcesLocationFallback ==
    /\ \E l \in {NoLocation, InMemory, RelativePath(<<"l", "i", "b">>)} :
          policy' = set_resources_location_fallback(policy, l)
    /\ UNCHANGED <<log, exempt_log, distVars, walkVars, locVars, auditVars, buildVars>>

SetPreferredExtensionModuleVariant ==
    /\ \E v \in Variants :
          policy' = set_preferred_extension_module_variant(policy, "readline", v)
    /\ UNCHANGED <<log, exempt_log, distVars, walkVars, locVars, auditVars, buildVars>>

SetAllowInMemorySharedLibraryLoading ==
    /\ \E v \in BOOLEAN : policy' = set_allow_in_memory_shared_library_loading(policy, v)
    /\ UNCHANGED <<log, exempt_log, distVars, walkVars, locVars, auditVars, buildVars>>

InitPolicy ==
    /\ policy = DefaultPolicy
    /\ log = <<>>
    /\ exempt_log = <<>>
    /\ DistIdle /\ WalkIdle /\ LocIdle /\ AuditIdle /\ BuildIdle

NextPolicy ==
    \/ RegisterBrokenExtension
    \/ RegisterNoBytecodeModule
    \/ SetResourcesLocation
    \/ SetResourcesLocationFallback
    \/ SetPreferredExtensionModuleVariant
    \/ SetAllowInMemorySharedLibraryLoading

SpecPolicy == InitPolicy /\ [][NextPolicy]_vars

-----------------------------------------------------------------------------
(* The __file__ audit of the resource collector.                           *)

(* Source text is a sequence of bytes. A byte is written as its ASCII      *)
(* character, LF, TAB and FORMFEED for the three control characters, and   *)
(* xNN for a byte outside ASCII. Decoded text is a sequence of characters: *)
(* an ASCII character as itself, any other as U+NNNN.                       *)

Lower == <<"a", "b", "c", "d", "e", "f", "g", "h", "i", "j", "k", "l", "m",
           "n", "o", "p", "q", "r", "s", "t", "u", "v", "w", "x", "y", "z">>
Upper == <<"A", "B", "C", "D", "E", "F", "G", "H", "I", "J", "K", "L", "M",
           "N", "O", "P", "Q", "R", "S", "T", "U", "V", "W", "X", "Y", "Z">>
Digits == {"0", "1", "2", "3", "4", "5", "6", "7", "8", "9"}

Range(f) == {f[i] : i \in DOMAIN f}

\* [-_.a-zA-Z0-9]
LabelChars == Range(Lower) \cup Range(Upper) \cup Digits \cup {"-", "_", "."}

Contains(text, pat) ==
    \E i \in 1..(Len(text) + 1 - Len(pat)) : SubSeq(text, i, i + Len(pat) - 1) = pat

\* the first index from i on whose byte is outside set, Len(line) + 1 if none
RECURSIVE SkipWhile(_, _, _)
SkipWhile(line, i, set) ==
    IF i <= Len(line) /\ line[i] \in set THEN SkipWhile(line, i + 1, set) ELSE i

\* source.split(|v| v == &b'\n')
RECURSIVE SplitLines(_)
SplitLines(source) ==
    LET n == SkipWhile(source, 1, (Range(source) \ {"LF"}))
    IN  IF n > Len(source) THEN <<source>>
        ELSE <<SubSeq(source, 1, n - 1)>> \o SplitLines(SubSeq(source, n + 1, Len(source)))

\* UTF-8 decoding with malformed sequences replaced by U+FFFD, over the bytes of
\* the alphabet: xC3 leads two bytes, xE9 leads three, xA9 continues, xFF and xFE
\* are never valid
RECURSIVE Utf8Decode(_)
Utf8Decode(bytes) ==
    IF bytes = <<>> THEN <<>>
    ELSE LET b == Head(bytes)
             cont(i) == i <= Len(bytes) /\ bytes[i] = "xA9"
             rest(n) == Utf8Decode(SubSeq(bytes, n + 1, Len(bytes)))
         IN  CASE b = "x00" -> <<"U+0000">> \o rest(1)
               [] b = "xC3" -> IF cont(2) THEN <<"U+00E9">> \o rest(2)
                               ELSE <<"U+FFFD">> \o rest(1)
               [] b = "xE9" -> IF cont(2) /\ cont(3) THEN <<"U+9A69">> \o rest(3)
                               ELSE IF cont(2) THEN <<"U+FFFD">> \o rest(2)
                               ELSE <<"U+FFFD">> \o rest(1)
               [] b \in {"xA9", "xFF", "xFE"} -> <<"U+FFFD">> \o rest(1)
               [] OTHER -> <<b>> \o rest(1)

\* windows-1252 decoding: every byte is one character
Windows1252Char(b) ==
    CASE b = "x00" -> "U+0000"
      [] b = "xE9" -> "U+00E9"
      [] b = "xC3" -> "U+00C3"
      [] b = "xA9" -> "U+00A9"
      [] b = "xFF" -> "U+00FF"
      [] b = "xFE" -> "U+00FE"
      [] OTHER -> b

\* UTF-16LE decoding: two bytes, low then high, are one code unit; a trailing
\* odd byte is malformed. A unit with a high byte other than zero is a
\* character outside Latin-1, written U+xxxx
RECURSIVE Utf16LeDecode(_)
Utf16LeDecode(bytes) ==
    IF bytes = <<>> THEN <<>>
    ELSE IF Len(bytes) = 1 THEN <<"U+FFFD">>
    ELSE (IF bytes[2] = "x00" THEN <<Windows1252Char(bytes[1])>> ELSE <<"U+xxxx">>)
            \o Utf16LeDecode(SubSeq(bytes, 3, Len(bytes)))

\* RE_CODING.find(line): the end of the match and the start of its group, the
\* match starting at the start of the line; none when the line does not match
RE_CODING(line) ==
    LET h == SkipWhile(line, 1, {" ", "TAB", "FORMFEED"})
        \* a place where the word coding, the separator and a label follow, the
        \* bytes between the hash and the word being characters
        At(k) ==
            /\ k + 6 <= Len(line)
            /\ SubSeq(line, k, k + 5) = <<"c", "o", "d", "i", "n", "g">>
            /\ line[k + 6] \in {":", "="}
            /\ LET w == SkipWhile(line, k + 7, {" ", "TAB"})
               IN  w <= Len(line) /\ line[w] \in LabelChars
            /\ "U+FFFD" \notin Range(Utf8Decode(SubSeq(line, h + 1, k - 1)))
        ks == {k \in (h + 1)..Len(line) : At(k)}
    IN  IF h <= Len(line) /\ line[h] = "#" /\ ks # {}
        THEN LET k == CHOOSE x \in ks : \A y \in ks : x <= y
                 w == SkipWhile(line, k + 7, {" ", "TAB"})
             IN  [found |-> TRUE, group |-> w, end |-> SkipWhile(line, w, LabelChars) - 1]
        ELSE [found |-> FALSE, group |-> 0, end |-> 0]

\* the lines of a source that may declare its encoding
CodingLines == 2

\* python_source_encoding
python_source_encoding(source) ==
    LET lines == SplitLines(source)
        hits == {i \in 1..Len(lines) : i <= CodingLines /\ RE_CODING(lines[i]).found}
    IN  IF hits = {} THEN <<"u", "t", "f", "-", "8">>
        ELSE LET i == CHOOSE x \in hits : \A y \in hits : x <= y
             IN  SubSeq(lines[i], 1, RE_CODING(lines[i]).end)

ToLower(c) == IF \E i \in 1..26 : Upper[i] = c THEN Lower[CHOOSE i \in 1..26 : Upper[i] = c] ELSE c

\* the label with its leading and trailing ASCII whitespace removed, in lower case
NormalizeLabel(label) ==
    LET ws == {" ", "TAB", "LF", "FORMFEED"}
        a == SkipWhile(label, 1, ws)
        ends == {j \in a..Len(label) : label[j] \notin ws}
        b == IF ends = {} THEN a - 1 ELSE CHOOSE x \in ends : \A y \in ends : y <= x
    IN  [i \in 1..(b + 1 - a) |-> ToLower(label[a + i - 1])]

\* encoding_rs::Encoding::for_label, over the labels of three encodings
for_label(label) ==
    LET l == NormalizeLabel(label)
    IN  CASE l \in {<<"u", "t", "f", "-", "8">>, <<"u", "t", "f", "8">>} -> "UTF-8"
          [] l \in {<<"l", "a", "t", "i", "n", "1">>, <<"l", "1">>, <<"a", "s", "c", "i", "i">>,
                    <<"i", "s", "o", "-", "8", "8", "5", "9", "-", "1">>,
                    <<"w", "i", "n", "d", "o", "w", "s", "-", "1", "2", "5", "2">>} -> "windows-1252"
          [] l \in {<<"u", "t", "f", "-", "1", "6">>, <<"u", "t", "f", "-", "1", "6", "l", "e">>} -> "UTF-16LE"
          [] OTHER -> "none"

\* Encoding::decode: a byte order mark decides the encoding and is dropped,
\* otherwise the encoder does
decode(encoder, source) ==
    IF Len(source) >= 2 /\ SubSeq(source, 1, 2) = <<"xFF", "xFE">>
    THEN Utf16LeDecode(SubSeq(source, 3, Len(source)))
    ELSE CASE encoder = "UTF-8" -> Utf8Decode(source)
           [] encoder = "windows-1252" -> [i \in 1..Len(source) |-> Windows1252Char(source[i])]
           [] encoder = "UTF-16LE" -> Utf16LeDecode(source)

DunderFile == <<"_", "_", "f", "i", "l", "e", "_", "_">>

\* has_dunder_file
has_dunder_file(source) ==
    LET encoding == python_source_encoding(source)
        encoder == IF for_label(encoding) # "none" THEN for_label(encoding) ELSE "UTF-8"
    IN  Contains(decode(encoder, source), DunderFile)

\* the claimed case: a latin-1 declaration, then a line using __file__
SrcLatin1Dunder ==
    <<"#", " ", "c", "o", "d", "i", "n", "g", ":", " ", "l", "a", "t", "i", "n", "-", "1",
      "LF", "x", " ", "=", " ", "_", "_", "f", "i", "l", "e", "_", "_", "LF">>

\* the same text without the reference
SrcLatin1Plain ==
    <<"#", " ", "c", "o", "d", "i", "n", "g", ":", " ", "l", "a", "t", "i", "n", "-", "1",
      "LF", "x", " ", "=", " ", "1", "LF">>

\* a latin-1 byte outside ASCII on the line that uses __file__
SrcLatin1AccentDunder ==
    <<"#", " ", "c", "o", "d", "i", "n", "g", ":", " ", "l", "a", "t", "i", "n", "-", "1",
      "LF", "s", " ", "=", " ", "'", "xE9", "'", " ", "+", " ", "_", "_", "f", "i", "l",
      "e", "_", "_", "LF">>

\* the same text without the reference
SrcLatin1AccentPlain ==
    <<"#", " ", "c", "o", "d", "i", "n", "g", ":", " ", "l", "a", "t", "i", "n", "-", "1",
      "LF", "s", " ", "=", " ", "'", "xE9", "'", "LF">>

\* no declaration
SrcPlainDunder ==
    <<"x", " ", "=", " ", "_", "_", "f", "i", "l", "e", "_", "_", "LF">>

\* no declaration, no reference
SrcPlain ==
    <<"x", " ", "=", " ", "1", "LF">>

\* a declaration on the second line, with a label of the encoding table
SrcSecondLineDecl ==
    <<"#", "!", "/", "b", "i", "n", "/", "s", "h", "LF", "#", " ", "-", "*", "-", " ", "c",
      "o", "d", "i", "n", "g", ":", " ", "l", "a", "t", "i", "n", "1", " ", "-", "*", "-",
      "LF", "x", " ", "=", " ", "_", "_", "f", "i", "l", "e", "_", "_">>

\* UTF-16LE with a byte order mark
SrcUtf16Dunder ==
    <<"xFF", "xFE", "_", "x00", "_", "x00", "f", "x00", "i", "x00", "l", "x00", "e", "x00",
      "_", "x00", "_", "x00">>

\* UTF-8 with a two-byte character
SrcUtf8AccentDunder ==
    <<"#", " ", "c", "o", "d", "i", "n", "g", "=", "u", "t", "f", "-", "8", "LF", "s", " ",
      "=", " ", "'", "xC3", "xA9", "'", "LF", "LF", "_", "_", "f", "i", "l", "e", "_", "_">>

\* names close to __file__
SrcNearMiss ==
    <<"_", "f", "i", "l", "e", "_", " ", "=", " ", "1", "LF", "#", " ", "_", "_", "f", "i",
      "l", "e", "_", " ", "_", "f", "i", "l", "e", "_", "_", "LF">>

\* a byte that is not UTF-8 between the hash and the word coding
SrcUndecodableGap ==
    <<"#", " ", "xE9", " ", "c", "o", "d", "i", "n", "g", ":", " ", "l", "a", "t", "i",
      "n", "1", "LF", "_", "_", "f", "i", "l", "e", "_", "_", "LF">>

Sources ==
    {SrcLatin1Dunder, SrcLatin1Plain, SrcLatin1AccentDunder, SrcLatin1AccentPlain,
     SrcPlainDunder, SrcPlain, SrcSecondLineDecl, SrcUtf16Dunder, SrcUtf8AccentDunder,
     SrcNearMiss, SrcUndecodableGap}

\* FileData; for a Path, data is what the file holds and readable whether
\* std::fs::read succeeds
Memory(data) == [tag |-> "Memory", data |-> data, readable |-> TRUE]
FilePath(data, readable) == [tag |-> "Path", data |-> data, readable |-> readable]
\* Option::None of a FileData
NoData == [tag |-> "None", data |-> <<>>, readable |-> TRUE]

\* FileData::resolve_content
resolve_content(fd) ==
    IF fd.tag = "Path" /\ ~fd.readable
    THEN [ok |-> FALSE, data |-> <<>>]
    ELSE [ok |-> TRUE, data |-> fd.data]

\* Option<PythonModuleBytecodeProvider>
FromSource(location) == [kind |-> "FromSource", location |-> location]
Provided(location) == [kind |-> "Provided", location |-> location]
NoProvider == [kind |-> "None", location |-> NoData]

\* PrePackagedResource, the slots the audit looks at
Resource(source, bytecode, opt1, opt2) ==
    [ in_memory_source |-> source,
      in_memory_bytecode |-> bytecode,
      in_memory_bytecode_opt1 |-> opt1,
      in_memory_bytecode_opt2 |-> opt2 ]

\* a constructor that takes the two location lists for one another
PythonResourceCollector_new_Swapped(allowed_locations, allowed_extension_module_locations, allow_new_builtin_extension_modules, allow_files) ==
    [ allowed_locations |-> allowed_extension_module_locations,
      allowed_extension_module_locations |-> allowed_locations,
      allow_new_builtin_extension_modules |-> allow_new_builtin_extension_modules,
      allow_files |-> allow_files,
      resources |-> EmptyMap ]

\* PythonResourceCollector::new
PythonResourceCollector_new(allowed_locations, allowed_extension_module_locations, allow_new_builtin_extension_modules, allow_files) ==
    [ allowed_locations |-> allowed_locations,
      allowed_extension_module_locations |-> allowed_extension_module_locations,
      allow_new_builtin_extension_modules |-> allow_new_builtin_extension_modules,
      allow_files |-> allow_files,
      resources |-> EmptyMap ]

\* the in-memory source of a module, when there is one
SourceSlot(module) ==
    IF module.in_memory_source.tag # "None" THEN {module.in_memory_source} ELSE {}

\* bytecode slots scanned whichever provider fills them
BytecodeSlots_AnyProvider(module) ==
    {b.location : b \in {x \in {module.in_memory_bytecode, module.in_memory_bytecode_opt1,
                                module.in_memory_bytecode_opt2} : x.kind # "None"}}

\* the sources of the bytecode slots of a module that are compiled from source
BytecodeSlots(module) ==
    {b.location : b \in {x \in {module.in_memory_bytecode, module.in_memory_bytecode_opt1,
                                module.in_memory_bytecode_opt2} : x.kind = "FromSource"}}

\* the result of scanning the slots of every module, slots being a map from
\* module name to locations: an error when some content cannot be read, else the
\* names of the modules with a hit
ScanResources(c, slots) ==
    IF \E n \in DOMAIN c.resources : \E fd \in slots[n] : ~resolve_content(fd).ok
    THEN [done |-> TRUE, ok |-> FALSE, names |-> {}]
    ELSE [done |-> TRUE, ok |-> TRUE,
          names |-> {n \in DOMAIN c.resources :
                        \E fd \in slots[n] : has_dunder_file(resolve_content(fd).data)}]

\* an audit that skips the in-memory source of a module
find_dunder_file_BytecodeOnly(c) ==
    ScanResources(c, [n \in DOMAIN c.resources |-> BytecodeSlots(c.resources[n])])

\* PythonResourceCollector::find_dunder_file
find_dunder_file(c) ==
    ScanResources(c, [n \in DOMAIN c.resources |->
                        SourceSlot(c.resources[n]) \cup BytecodeSlots(c.resources[n])])

NoAudit == [done |-> FALSE, ok |-> TRUE, names |-> {}]

\* the registry is private to the collector; the audit is checked over the
\* registries below
AppModules ==
    {Resource(src, bc, o1, o2) :
        src \in {NoData} \cup {Memory(x) : x \in Sources},
        bc \in {NoProvider, FromSource(Memory(SrcPlainDunder)), FromSource(Memory(SrcPlain)),
                Provided(Memory(SrcPlainDunder)), FromSource(FilePath(SrcPlainDunder, FALSE))},
        o1 \in {NoProvider, FromSource(Memory(SrcPlainDunder))},
        o2 \in {NoProvider, Provided(Memory(SrcPlainDunder)),
                FromSource(FilePath(SrcPlainDunder, TRUE))}}

PkgModules ==
    {Resource(src, NoProvider, NoProvider, NoProvider) :
        src \in {NoData, Memory(SrcLatin1Dunder), Memory(SrcLatin1Plain),
                 FilePath(SrcLatin1Dunder, TRUE), FilePath(SrcLatin1Dunder, FALSE)}}

Registries ==
    {EmptyMap}
        \cup {("app" :> a) : a \in AppModules}
        \cup {("pkg.mod" :> b) : b \in PkgModules}
        \cup {("app" :> a) @@ ("pkg.mod" :> b) : a \in AppModules, b \in PkgModules}

\* an audit that takes the resources out of the collector it scans
find_dunder_file_self_Drained(c) == [c EXCEPT !.resources = EmptyMap]

\* find_dunder_file(&self): the collector after the call
find_dunder_file_self(c) == c

FindDunderFile ==
    /\ ~audit.done
    /\ audit' = find_dunder_file(collector)
    /\ collector' = find_dunder_file_self(collector)
    /\ UNCHANGED <<context, distVars, walkVars, locVars, policyVars, buildVars>>

\* the names of a set of modules in the order a BTreeSet yields them
ModuleOrder == <<"app", "pkg.mod">>
InOrder(names) == SelectSeq(ModuleOrder, LAMBDA n : n \in names)

\* log::warn! for every module found, then three more when there was one
Warnings(names) ==
    [i \in 1..Cardinality(names) |-> <<"contains __file__", InOrder(names)[i]>>]
        \o (IF names # {}
            THEN <<<<"__file__ was encountered", "">>, <<"PyOxidizer does not set __file__", "">>,
                   <<"See issues/69", "">>>>
            ELSE <<>>)

NoContext == [pc |-> "idle", file_seen |-> FALSE, warnings |-> <<>>]

\* an assembler that returns an error when the audit finds a module
to_embedded_python_context_FatalFindings(c) ==
    LET found == find_dunder_file(c)
    IN  IF ~found.ok \/ found.names # {}
        THEN [pc |-> "failed", file_seen |-> found.names # {}, warnings |-> Warnings(found.names)]
        ELSE [pc |-> "resources", file_seen |-> FALSE, warnings |-> <<>>]

\* to_embedded_python_context up to let mut pending_resources: find_dunder_file()?
\* returns its error, a result is logged and the assembly goes on
to_embedded_python_context(c) ==
    LET found == find_dunder_file(c)
    IN  IF ~found.ok
        THEN [pc |-> "failed", file_seen |-> FALSE, warnings |-> <<>>]
        ELSE [pc |-> "resources", file_seen |-> found.names # {}, warnings |-> Warnings(found.names)]

ToEmbeddedPythonContext ==
    /\ context.pc = "audit"
    /\ context' = to_embedded_python_context(collector)
    /\ UNCHANGED <<collector, audit, distVars, walkVars, locVars, policyVars, buildVars>>

InitAudit ==
    /\ \E r \in Registries :
          collector = [PythonResourceCollector_new(<<"InMemory">>, <<"InMemory">>, TRUE, FALSE)
                          EXCEPT !.resources = r]
    /\ audit = NoAudit
    /\ context = [NoContext EXCEPT !.pc = "audit"]
    /\ DistIdle /\ WalkIdle /\ LocIdle /\ PolicyIdle /\ BuildIdle

NextAudit ==
    \/ FindDunderFile
    \/ ToEmbeddedPythonContext

SpecAudit == InitAudit /\ [][NextAudit]_vars

-----------------------------------------------------------------------------
(* The policy of a distribution and the collector built from it:           *)
(* create_packaging_policy and the part of generate_python_embedding_      *)
(* artifacts that constructs the resource collector.                       *)

LINUX_TARGET_TRIPLES_NoMusl == <<"aarch64-unknown-linux-gnu", "x86_64-unknown-linux-gnu">>

LINUX_TARGET_TRIPLES ==
    <<"aarch64-unknown-linux-gnu", "x86_64-unknown-linux-gnu", "x86_64-unknown-linux-musl">>
MACOS_TARGET_TRIPLES == <<"aarch64-apple-darwin", "x86_64-apple-darwin">>
WINDOWS_TARGET_TRIPLES ==
    <<"i686-pc-windows-gnu", "i686-pc-windows-msvc", "x86_64-pc-windows-gnu", "x86_64-pc-windows-msvc">>
BROKEN_EXTENSIONS_LINUX == <<"_crypt", "nis">>
BROKEN_EXTENSIONS_MACOS == <<"curses", "_curses_panel", "readline">>
NO_BYTECODE_MODULES ==
    <<"lib2to3.tests.data.bom",
      "lib2to3.tests.data.crlf",
      "lib2to3.tests.data.different_encoding",
      "lib2to3.tests.data.false_encoding",
      "lib2to3.tests.data.py2_test_grammar",
      "lib2to3.tests.data.py3_test_grammar",
      "test.bad_coding",
      "test.badsyntax_3131",
      "test.badsyntax_future3",
      "test.badsyntax_future4",
      "test.badsyntax_future5",
      "test.badsyntax_future6",
      "test.badsyntax_future7",
      "test.badsyntax_future8",
      "test.badsyntax_future9",
      "test.badsyntax_future10",
      "test.badsyntax_pep3120">>

\* the target triples a manifest may name: the triples of the three tables, a
\* Windows triple of another vendor and a triple of another system
TargetTriples ==
    Range(LINUX_TARGET_TRIPLES) \cup Range(MACOS_TARGET_TRIPLES) \cup Range(WINDOWS_TARGET_TRIPLES)
        \cup {"x86_64-uwp-windows-msvc", "x86_64-pc-solaris"}

\* the characters of a target triple
TripleChars ==
    [t \in TargetTriples |->
        CASE t = "aarch64-unknown-linux-gnu" ->
               <<"a", "a", "r", "c", "h", "6", "4", "-", "u", "n", "k", "n", "o", "w", "n", "-", "l", "i", "n", "u", "x", "-", "g", "n", "u">>
          [] t = "x86_64-unknown-linux-gnu" ->
               <<"x", "8", "6", "_", "6", "4", "-", "u", "n", "k", "n", "o", "w", "n", "-", "l", "i", "n", "u", "x", "-", "g", "n", "u">>
          [] t = "x86_64-unknown-linux-musl" ->
               <<"x", "8", "6", "_", "6", "4", "-", "u", "n", "k", "n", "o", "w", "n", "-", "l", "i", "n", "u", "x", "-", "m", "u", "s", "l">>
          [] t = "aarch64-apple-darwin" ->
               <<"a", "a", "r", "c", "h", "6", "4", "-", "a", "p", "p", "l", "e", "-", "d", "a", "r", "w", "i", "n">>
          [] t = "x86_64-apple-darwin" ->
               <<"x", "8", "6", "_", "6", "4", "-", "a", "p", "p", "l", "e", "-", "d", "a", "r", "w", "i", "n">>
          [] t = "i686-pc-windows-gnu" ->
               <<"i", "6", "8", "6", "-", "p", "c", "-", "w", "i", "n", "d", "o", "w", "s", "-", "g", "n", "u">>
          [] t = "i686-pc-windows-msvc" ->
               <<"i", "6", "8", "6", "-", "p", "c", "-", "w", "i", "n", "d", "o", "w", "s", "-", "m", "s", "v", "c">>
          [] t = "x86_64-pc-windows-gnu" ->
               <<"x", "8", "6", "_", "6", "4", "-", "p", "c", "-", "w", "i", "n", "d", "o", "w", "s", "-", "g", "n", "u">>
          [] t = "x86_64-pc-windows-msvc" ->
               <<"x", "8", "6", "_", "6", "4", "-", "p", "c", "-", "w", "i", "n", "d", "o", "w", "s", "-", "m", "s", "v", "c">>
          [] t = "x86_64-uwp-windows-msvc" ->
               <<"x", "8", "6", "_", "6", "4", "-", "u", "w", "p", "-", "w", "i", "n", "d", "o", "w", "s", "-", "m", "s", "v", "c">>
          [] t = "x86_64-pc-solaris" ->
               <<"x", "8", "6", "_", "6", "4", "-", "p", "c", "-", "s", "o", "l", "a", "r", "i", "s">>]

\* the attributes of a resolved distribution that the policy and the collector
\* depend on
Distributions ==
    [ target_triple : TargetTriples,
      python_symbol_visibility : {"dllexport", "global-default"},
      extension_module_loading : {<<>>, <<"builtin">>, <<"builtin", "shared-library">>, <<"shared-library">>} ]

\* a predicate that does not look at the symbol visibility
supports_in_memory_shared_library_loading_AnyVisibility(d) ==
    /\ Contains(TripleChars[d.target_triple], <<"p", "c", "-", "w", "i", "n", "d", "o", "w", "s">>)
    /\ "shared-library" \in Range(d.extension_module_loading)

\* StandaloneDistribution::supports_in_memory_shared_library_loading
supports_in_memory_shared_library_loading(d) ==
    /\ Contains(TripleChars[d.target_triple], <<"p", "c", "-", "w", "i", "n", "d", "o", "w", "s">>)
    /\ d.python_symbol_visibility = "dllexport"
    /\ "shared-library" \in Range(d.extension_module_loading)

\* a predicate that holds for Windows distributions only
is_extension_module_file_loadable_WindowsOnly(d) ==
    /\ Contains(TripleChars[d.target_triple], <<"w", "i", "n", "d", "o", "w", "s">>)
    /\ "shared-library" \in Range(d.extension_module_loading)

\* StandaloneDistribution::is_extension_module_file_loadable
is_extension_module_file_loadable(d) == "shared-library" \in Range(d.extension_module_loading)

\* locations that put resources in memory whatever the distribution supports
PolicyLocations_AlwaysInMemory(p, supports) ==
    set_resources_location_fallback(set_resources_location(p, InMemory),
                                    IF supports THEN RelativePath(<<"l", "i", "b">>) ELSE NoLocation)

\* create_packaging_policy: the locations of the policy
PolicyLocations(p, supports) ==
    IF supports
    THEN set_resources_location_fallback(set_resources_location(p, InMemory),
                                         RelativePath(<<"l", "i", "b">>))
    ELSE p

\* the (triple, extension) pairs of a loop over triples with a loop over
\* extensions inside, in loop order
LoopPairs(triples, exts) ==
    [k \in 1..(Len(triples) * Len(exts)) |->
        <<triples[((k - 1) \div Len(exts)) + 1], exts[((k - 1) % Len(exts)) + 1]>>]

\* create_packaging_policy: the registrations of broken extensions, in order
BrokenRegistrations ==
    LoopPairs(LINUX_TARGET_TRIPLES, BROKEN_EXTENSIONS_LINUX)
        \o LoopPairs(MACOS_TARGET_TRIPLES, BROKEN_EXTENSIONS_MACOS)

\* a permission for new builtin extension modules under dynamic linking
AllowNewBuiltin_Dynamic(link_mode) == link_mode = "Dynamic"

\* link_mode == LibpythonLinkMode::Static
AllowNewBuiltin(link_mode) == link_mode = "Static"

\* extension-module locations that take the capability of the distribution for
\* the permission of the policy
ExtensionModuleLocations_IgnoringPolicy(supports, allow_in_memory, file_loadable) ==
    (IF supports THEN <<"InMemory">> ELSE <<>>)
        \o (IF file_loadable THEN <<"RelativePath">> ELSE <<>>)

\* allowed_extension_module_locations: InMemory is pushed when the distribution
\* supports it and the policy allows it, RelativePath when files are loadable
ExtensionModuleLocations(supports, allow_in_memory, file_loadable) ==
    (IF supports /\ allow_in_memory THEN <<"InMemory">> ELSE <<>>)
        \o (IF file_loadable THEN <<"RelativePath">> ELSE <<>>)

BuildGoto(step) == [build EXCEPT !.pc = step, !.i = 1]

\* the stages of generate_python_embedding_artifacts that return a Result, in
\* the order they are called
StageOrder ==
    <<"create_dir_all", "canonicalize_path", "from_directory", "create_packaging_policy",
      "create_python_interpreter_config", "add_distribution_core_state",
      "to_embedded_python_context">>

\* a build that goes on to the next stage whatever the stage returned
Try_KeepGoing(b, stage, outcome, next) ==
    [b EXCEPT !.pc = next, !.i = 1, !.results = Append(@, <<stage, outcome>>)]

\* stage(..)?: Ok goes on to the next stage, Err returns from the build with the
\* error; a panic unwinds out of it
Try(b, stage, outcome, next) ==
    [b EXCEPT !.pc = CASE outcome = "ok" -> next
                      [] outcome = "err" -> "failed"
                      [] OTHER -> "panicked",
              !.i = 1,
              !.results = Append(@, <<stage, outcome>>)]

\* std::fs::create_dir_all(dest_path): what is at dest_path afterwards. A file in
\* the way is an error, and so is a directory that cannot be created
BuildCreateDir ==
    /\ build.pc = "create_dir"
    /\ \E outcome \in (CASE build.dest_dir = "file" -> {"err"}
                         [] build.dest_dir = "dir" -> {"ok"}
                         [] OTHER -> {"ok", "err"}) :
          build' = [Try(build, "create_dir_all", outcome, "canonicalize") EXCEPT
                       !.dest_dir = IF outcome = "ok" THEN "dir" ELSE @]
    /\ UNCHANGED <<policyVars, auditVars, distVars, walkVars, locVars>>

\* canonicalize_path(dest_path)
BuildCanonicalize ==
    /\ build.pc = "canonicalize"
    /\ \E outcome \in {"ok", "err"} :
          build' = Try(build, "canonicalize_path", outcome, "from_directory")
    /\ UNCHANGED <<policyVars, auditVars, distVars, walkVars, locVars>>

\* StandaloneDistribution::from_directory(&dist)?: the distribution the
\* directory describes, an error, or the panic of the header walk
BuildFromDirectory ==
    /\ build.pc = "from_directory"
    /\ \E outcome \in {"ok", "err", "panic"} :
          build' = Try(build, "from_directory", outcome, "default")
    /\ UNCHANGED <<policyVars, auditVars, distVars, walkVars, locVars>>

\* PythonPackagingPolicy::default()
PolicyDefault ==
    /\ build.pc = "default"
    /\ policy' = DefaultPolicy
    /\ build' = BuildGoto("location")
    /\ UNCHANGED <<log, exempt_log, collector, audit, context, distVars, walkVars, locVars>>

\* the locations, set when the distribution loads shared libraries from memory
PolicyLocation ==
    /\ build.pc = "location"
    /\ policy' = PolicyLocations(policy, supports_in_memory_shared_library_loading(build.dist))
    /\ build' = BuildGoto("broken")
    /\ UNCHANGED <<log, exempt_log, collector, audit, context, distVars, walkVars, locVars>>

\* one turn of the loops over the tables of broken extensions
PolicyBroken ==
    /\ build.pc = "broken"
    /\ LET r == BrokenRegistrations[build.i]
       IN  /\ policy' = register_broken_extension(policy, r[1], r[2])
           /\ log' = Append(log, r)
    /\ build' = IF build.i = Len(BrokenRegistrations) THEN BuildGoto("no_bytecode")
                ELSE [build EXCEPT !.i = @ + 1]
    /\ UNCHANGED <<exempt_log, collector, audit, context, distVars, walkVars, locVars>>

\* one turn of the loop over NO_BYTECODE_MODULES; Ok(policy) after the last
PolicyNoBytecode ==
    /\ build.pc = "no_bytecode"
    /\ policy' = register_no_bytecode_module(policy, NO_BYTECODE_MODULES[build.i])
    /\ exempt_log' = Append(exempt_log, NO_BYTECODE_MODULES[build.i])
    /\ build' = IF build.i = Len(NO_BYTECODE_MODULES)
                THEN Try(build, "create_packaging_policy", "ok", "interpreter_config")
                ELSE [build EXCEPT !.i = @ + 1]
    /\ UNCHANGED <<log, collector, audit, context, distVars, walkVars, locVars>>

\* create_python_interpreter_config, which returns Ok, and the two fields set on
\* its result
BuildInterpreterConfig ==
    /\ build.pc = "interpreter_config"
    /\ build' = [Try(build, "create_python_interpreter_config", "ok", "link_mode") EXCEPT
                    !.interpreter_config = [profile |-> "Python", allocator_backend |-> "Default"]]
    /\ UNCHANGED <<policyVars, auditVars, distVars, walkVars, locVars>>

\* let link_mode = LibpythonLinkMode::Static, and the in-memory capability
BuildLinkMode ==
    /\ build.pc = "link_mode"
    /\ build' = [BuildGoto("allowed_locations") EXCEPT
                    !.link_mode = "Static",
                    !.supports = supports_in_memory_shared_library_loading(build.dist)]
    /\ UNCHANGED <<policyVars, collector, audit, context, distVars, walkVars, locVars>>

\* allowed_locations: the primary location, then the fallback if there is one.
\* A location that no constructor and no setter has set holds any value.
BuildAllowedLocations ==
    /\ build.pc = "allowed_locations"
    /\ \E primary \in (IF policy.resources_location.tag = "Unset"
                       THEN {"InMemory", "RelativePath"}
                       ELSE {AbstractFrom(policy.resources_location)}),
          fallback \in (CASE policy.resources_location_fallback.tag = "Unset" ->
                                {<<>>, <<"InMemory">>, <<"RelativePath">>}
                          [] policy.resources_location_fallback.tag = "None" -> {<<>>}
                          [] OTHER -> {<<AbstractFrom(policy.resources_location_fallback)>>}) :
          build' = [BuildGoto("extension_locations") EXCEPT !.allowed_locations = <<primary>> \o fallback]
    /\ UNCHANGED <<policyVars, collector, audit, context, distVars, walkVars, locVars>>

\* allowed_extension_module_locations and allow_new_builtin_extension_modules
BuildExtensionLocations ==
    /\ build.pc = "extension_locations"
    /\ build' = [BuildGoto("collector") EXCEPT
                    !.allowed_extension_module_locations =
                        ExtensionModuleLocations(build.supports,
                                                 policy.allow_in_memory_shared_library_loading,
                                                 is_extension_module_file_loadable(build.dist)),
                    !.allow_new_builtin_extension_modules = AllowNewBuiltin(build.link_mode)]
    /\ UNCHANGED <<policyVars, collector, audit, context, distVars, walkVars, locVars>>

\* PythonResourceCollector::new(..) inside the builder
BuildCollector ==
    /\ build.pc = "collector"
    /\ collector' = PythonResourceCollector_new(build.allowed_locations,
                                                build.allowed_extension_module_locations,
                                                build.allow_new_builtin_extension_modules,
                                                policy.allow_files)
    /\ build' = BuildGoto("core_state")
    /\ UNCHANGED <<policyVars, audit, context, distVars, walkVars, locVars>>

\* builder.add_distribution_core_state()?: its body adds nothing and returns Ok
BuildCoreState ==
    /\ build.pc = "core_state"
    /\ build' = Try(build, "add_distribution_core_state", "ok", "context")
    /\ UNCHANGED <<policyVars, auditVars, distVars, walkVars, locVars>>

\* builder.to_embedded_python_context("1")?: the audit, then the rest of the
\* assembly, which returns Ok or an error of its own; Ok(()) after it
BuildContext ==
    /\ build.pc = "context"
    /\ context' = to_embedded_python_context(collector)
    /\ \E outcome \in (IF context'.pc = "failed" THEN {"err"} ELSE {"ok", "err"}) :
          build' = Try(build, "to_embedded_python_context", outcome, "done")
    /\ UNCHANGED <<policyVars, collector, audit, distVars, walkVars, locVars>>

\* what is at dest_path before the build
DestStates == {"absent", "dir", "file"}

InitBuild ==
    /\ \E d \in Distributions, before \in DestStates :
          build = [pc |-> "create_dir", i |-> 1, dist |-> d, link_mode |-> "unset", supports |-> FALSE,
                   allowed_locations |-> <<>>, allowed_extension_module_locations |-> <<>>,
                   allow_new_builtin_extension_modules |-> FALSE,
                   interpreter_config |-> [profile |-> "unset", allocator_backend |-> "unset"],
                   dest_before |-> before, dest_dir |-> before, results |-> <<>>]
    /\ DistIdle /\ WalkIdle /\ LocIdle /\ PolicyIdle /\ AuditIdle

NextBuild ==
    \/ BuildCreateDir
    \/ BuildCanonicalize
    \/ BuildFromDirectory
    \/ PolicyDefault
    \/ PolicyLocation
    \/ PolicyBroken
    \/ PolicyNoBytecode
    \/ BuildInterpreterConfig
    \/ BuildLinkMode
    \/ BuildAllowedLocations
    \/ BuildExtensionLocations
    \/ BuildCollector
    \/ BuildCoreState
    \/ BuildContext

SpecBuild == InitBuild /\ [][NextBuild]_vars

-----------------------------------------------------------------------------
(* Claims about distribution resolution, under SpecDist.                   *)

\* C1: a manifest whose top-level version is a string other than "7" makes
\* parse_python_json fail with the version-mismatch error, and the strict
\* deserialization into PythonJsonMain is never reached for it.
C1_VersionMismatchStopsParse ==
    (buf.syntax = "object" /\ buf.version.t = "string" /\ buf.version.v # "7")
        => (pc = "failed" /\ err = "version_mismatch" /\ "deserialize" \notin reached /\ pi = NoManifest)

\* a complete, well-formed version-6 manifest was read and refused
C1_Witness ==
    /\ buf.version = [t |-> "string", v |-> "6"] /\ buf.schema_ok
    /\ pc = "failed" /\ err = "version_mismatch"

\* C2: with an entry in the distribution root other than python and .DS_Store,
\* from_directory fails, and it does so before the python/ directory is listed or
\* the manifest is read or parsed.
C2_UnknownRootEntryFailsBeforeParse ==
    (\E e \in EntryNames(<<>>) : e \notin {".DS_Store", "python"})
        => /\ pc \in {"root_scan", "failed"}
           /\ reached = {"root_scan"}
           /\ buf = NoDocument /\ pi = NoManifest /\ dist = NoDist
           /\ pc = "failed" => err = "unexpected_root_entry"

\* the run failed on a root that also holds a python/PYTHON.json it could have parsed
C2_Witness ==
    /\ "README" \in EntryNames(<<>>) /\ Exists(PythonJsonPath)
    /\ pc = "failed" /\ err = "unexpected_root_entry"

\* the paths a returned distribution stores, headers apart
StoredPaths ==
    MapValues(dist.objs_core) \cup MapValues(dist.libraries)
        \cup {o.v : o \in {x \in {dist.stdlib_path, dist.python_exe, dist.inittab_object,
                                  dist.tcl_library_path} : x.some}}

\* C9 as claimed: every path of a returned distribution exists below the
\* distribution root.
C9_NoDanglingPath ==
    pc = "done" => \A p \in StoredPaths \cup MapValues(dist.includes) : Exists(p)

\* C9, amended: the header map alone is built from what is on disk. Every header
\* path stored is an entry found below the include directory that is not a
\* directory, keyed by its path relative to the include directory.
C9_HeadersAreEntriesOnDisk ==
    pc \in {"stdlib", "done"} =>
        \A k \in DOMAIN dist.includes :
            /\ dist.includes[k] \in DOMAIN fs /\ ~IsDir(dist.includes[k])
            /\ dist.includes[k] = PythonPath \o pi.python_paths["include"] \o k

\* a distribution was returned with headers and with a core object path that is
\* not on disk
C9_Witness ==
    /\ pc = "done" /\ DOMAIN dist.includes # {}
    /\ \E p \in MapValues(dist.objs_core) : ~Exists(p)

\* C23: when python/PYTHON.json does not exist, parse_python_json fails with the
\* not-found error without reading or parsing anything, and from_directory fails
\* as a whole: nothing is deserialized and no distribution is built.
C23_AbsentDescriptorIsNotFound ==
    ("parse" \in reached /\ pc # "parse" /\ ~Exists(PythonJsonPath))
        => /\ pc = "failed" /\ err = "not_found"
           /\ buf = NoDocument
           /\ "deserialize" \notin reached /\ pi = NoManifest /\ dist = NoDist

\* the parser was called on a python/ directory that passed the scan and holds no
\* PYTHON.json
C23_Witness ==
    /\ IsDir(PythonPath) /\ PythonJsonPath \notin DOMAIN fs
    /\ "parse" \in reached /\ pc = "failed" /\ err = "not_found"

\* C24: a distribution is returned only when the path table of the manifest has
\* both the "include" and the "stdlib" entry. Without "include" the run ends
\* before the headers are walked, without "stdlib" before the distribution is
\* assembled, each with its own error.
C24_PathTableEntriesRequired ==
    /\ pc = "done" => {"include", "stdlib"} \subseteq DOMAIN pi.python_paths
    /\ ("includes" \in reached /\ pc # "includes" /\ "include" \notin DOMAIN pi.python_paths)
          => pc = "failed" /\ err = "include_undefined" /\ "stdlib" \notin reached
    /\ ("stdlib" \in reached /\ pc # "stdlib" /\ "stdlib" \notin DOMAIN pi.python_paths)
          => pc = "failed" /\ err = "stdlib_undefined"

\* a manifest with "include" and without "stdlib" was refused after its headers
\* were walked
C24_Witness ==
    /\ DOMAIN pi.python_paths = {"include"} /\ DOMAIN dist.includes # {}
    /\ pc = "failed" /\ err = "stdlib_undefined"

\* C27 as claimed: python/ is allow-listed as the root is, so a python/ directory
\* holding only the six expected entries and .DS_Store passes the scan.
C27_AllowListLikeRoot ==
    ("python_scan" \in reached /\ pc # "python_scan" /\ IsDir(PythonPath)
        /\ EntryNames(PythonPath) \subseteq
              {"build", "install", "lib", "licenses", "LICENSE.rst", "PYTHON.json", ".DS_Store"})
        => "parse" \in reached

\* C27, amended: the run gets past the scan of python/ exactly when every entry
\* of python/ is one of build, install, lib, licenses, LICENSE.rst and
\* PYTHON.json. Any other entry, .DS_Store included, ends the run with the
\* unexpected-entry error before the manifest is read or parsed.
C27_PythonEntriesAllowListed ==
    ("python_scan" \in reached /\ pc # "python_scan" /\ IsDir(PythonPath))
        => IF EntryNames(PythonPath) \subseteq
                {"build", "install", "lib", "licenses", "LICENSE.rst", "PYTHON.json"}
           THEN "parse" \in reached
           ELSE /\ pc = "failed" /\ err = "unexpected_python_entry"
                /\ "parse" \notin reached /\ buf = NoDocument /\ pi = NoManifest

\* the scan refused a python/ directory that holds .DS_Store next to a manifest
C27_Witness ==
    /\ ".DS_Store" \in EntryNames(PythonPath) /\ Exists(PythonJsonPath)
    /\ pc = "failed" /\ err = "unexpected_python_entry"

\* the index of the last entry of links that has the name and a static path, 0
\* for none
LastStatic(links, name) ==
    LET is == {i \in 1..Len(links) : links[i].name = name /\ links[i].path_static.some}
    IN  IF is = {} THEN 0 ELSE CHOOSE i \in is : \A j \in is : j <= i

\* C28: once the link entries are collected, a name is in the library map exactly
\* when some entry of that name has a static path, and it maps to python/ joined
\* with the static path of the last such entry in manifest order. Entries with
\* only a dynamic path add nothing.
C28_LibrariesAreStaticPaths ==
    ("includes" \in reached) =>
        /\ DOMAIN dist.libraries = {pi.links[i].name : i \in {j \in 1..Len(pi.links) : pi.links[j].path_static.some}}
        /\ \A n \in DOMAIN dist.libraries :
              dist.libraries[n] = <<"python">> \o pi.links[LastStatic(pi.links, n)].path_static.v

\* two entries named x with different static paths were collected, the second
\* one stored
C28_Witness ==
    /\ "includes" \in reached /\ Len(pi.links) = 2
    /\ pi.links[1].name = "x" /\ pi.links[2].name = "x"
    /\ pi.links[1].path_static # pi.links[2].path_static
    /\ dist.libraries["x"] = <<"python">> \o pi.links[2].path_static.v

-----------------------------------------------------------------------------
(* Claims about the header walk, under SpecWalk.                           *)

\* the file name of a path
FileName(p) == p[Len(p)]

\* the parent directory of a path
Parent(p) == SubSeq(p, 1, Len(p) - 1)

\* C5: over a fixed tree every invocation of walk_tree_files yields the same
\* sequence, whatever order read_dir returned the entries in: no entry that is a
\* directory, every other entry below the root exactly once, and two entries of
\* one directory in bytewise file-name order.
C5_WalkIsDeterministic ==
    \A i \in 1..Len(walks) :
        /\ walks[i] = walks[1]
        /\ \A k \in 1..Len(walks[i]) : ~IsDir(walks[i][k])
        /\ {walks[i][k] : k \in 1..Len(walks[i])} =
              {p \in DOMAIN fs : IsPrefix(IncludeRoot, p) /\ ~IsDir(p)
                                   /\ \A a \in Prefixes(p) : Len(a) < Len(p) => fs[a] = "dir"}
        /\ \A k, l \in 1..Len(walks[i]) :
              (k < l /\ Parent(walks[i][k]) = Parent(walks[i][l]))
                  => FileNameLess(FileName(walks[i][k]), FileName(walks[i][l]))

\* two invocations over a tree with two headers side by side, a subdirectory and a
\* link to a directory
C5_Witness ==
    /\ Len(walks) = 2
    /\ {IncludeRoot \o <<"Python.h">>, IncludeRoot \o <<"abstract.h">>,
        IncludeRoot \o <<"cpython", "object.h">>, IncludeRoot \o <<"ext">>} \subseteq DOMAIN fs
    /\ Len(walks[2]) >= 3

-----------------------------------------------------------------------------
(* Claims about resource locations, under SpecLoc.                         *)

\* C6: the abstract form of RelativePath(prefix) is RelativePath whatever the
\* prefix, the abstract form of InMemory is InMemory, and the conversion yields a
\* value for every concrete location.
C6_ConcreteToAbstract ==
    converted # "none" =>
        /\ loc.tag = "RelativePath" => converted = "RelativePath"
        /\ loc.tag = "InMemory" => converted = "InMemory"
        /\ converted \in {"InMemory", "RelativePath"}

\* RelativePath("lib") was converted
C6_Witness ==
    /\ loc = RelativePath(<<"l", "i", "b">>)
    /\ converted = "RelativePath"

\* C30: parsing the string to_string returns for a location gives that location
\* back, for InMemory and for RelativePath with any prefix, the empty one and
\* those with a colon in them included. A string is accepted exactly when it is
\* "in-memory" or starts with "filesystem-relative:", and then stands for
\* InMemory or for RelativePath of what follows the first colon; every other
\* string is rejected.
C30_StringRoundTrip ==
    parsed.state # "none" =>
        /\ string.origin = "to_string" => parsed = [state |-> "ok", value |-> loc, msg |-> <<>>]
        /\ parsed.state = "ok" <=>
              \/ string.chars = <<"i", "n", "-", "m", "e", "m", "o", "r", "y">>
              \/ IsPrefix(FilesystemRelativeText \o <<":">>, string.chars)
        /\ (parsed.state = "ok" /\ parsed.value.tag = "RelativePath")
              => FilesystemRelativeText \o <<":">> \o parsed.value.prefix = string.chars
        /\ (parsed.state = "ok" /\ parsed.value.tag = "InMemory")
              => string.chars = <<"i", "n", "-", "m", "e", "m", "o", "r", "y">>

\* RelativePath("l:b") came back from its string
C30_Witness ==
    /\ loc = RelativePath(<<"l", ":", "b">>) /\ string.origin = "to_string"
    /\ parsed.state = "ok" /\ parsed.value = loc

\* "filesystem-relative" without a colon was rejected
C30_WitnessRejected ==
    /\ string = [origin |-> "given", chars |-> FilesystemRelativeText]
    /\ parsed.state = "err"

-----------------------------------------------------------------------------
(* Claims about the packaging policy, under SpecPolicy.                    *)

RECURSIVE CallsFor(_, _)
\* the extensions registered for a triple, in call order
CallsFor(calls, t) ==
    IF calls = <<>> THEN <<>>
    ELSE IF Head(calls)[1] = t THEN <<Head(calls)[2]>> \o CallsFor(Tail(calls), t)
    ELSE CallsFor(Tail(calls), t)

HasDuplicate(list) == \E i, j \in 1..Len(list) : i # j /\ list[i] = list[j]

\* C10 as claimed: registering a pair again changes nothing, so no per-triple
\* list ever holds the same extension twice.
C10_NoExtensionTwice ==
    \A t \in DOMAIN policy.broken_extensions : ~HasDuplicate(policy.broken_extensions[t])

\* C10, amended: every registration appends. A per-triple list holds one entry
\* per call made for the triple, in call order, repeated pairs included; a triple
\* has a list exactly when a call was made for it.
C10_OneEntryPerCall ==
    \A t \in Triples :
        /\ t \in DOMAIN policy.broken_extensions <=> CallsFor(log, t) # <<>>
        /\ t \in DOMAIN policy.broken_extensions => policy.broken_extensions[t] = CallsFor(log, t)

\* the same pair was registered twice and the list holds it twice
C10_Witness ==
    /\ Len(log) >= 2 /\ log[1] = log[2]
    /\ HasDuplicate(policy.broken_extensions[log[1][1]])

\* C11: the bytecode-exempt set is exactly the set of names registered, whatever
\* their order and however often each was registered; registering a name again
\* leaves the policy as it was.
C11_ExemptSetIsNamesRegistered ==
    policy.no_bytecode_modules = {exempt_log[i] : i \in 1..Len(exempt_log)}

\* one name was registered twice and the set holds it once, alone
C11_Witness ==
    /\ Len(exempt_log) = 2 /\ exempt_log[1] = exempt_log[2]
    /\ policy.no_bytecode_modules = {exempt_log[1]}

\* the fields of a policy that a step changes
ChangedFields == {f \in DOMAIN policy : policy'[f] # policy[f]}

\* C12 as claimed: a step that changes any field of the policy is one of the two
\* registrations.
C12_OnlyRegistrationsMutate ==
    [][policy' # policy => (log' # log \/ exempt_log' # exempt_log)]_vars

\* the fields that have a setter or a registration
MutableFields ==
    {"resources_location", "resources_location_fallback", "preferred_extension_module_variants",
     "allow_in_memory_shared_library_loading", "broken_extensions", "no_bytecode_modules"}

\* C12, amended: the mutators are the two registrations and the four setters
\* (primary location, fallback location, preferred variant, in-memory loading).
\* Each changes its own field only, the denylist and the exempt set change by a
\* registration only, and no operation changes any of the other twelve fields.
C12_MutatorsChangeTheirOwnField ==
    [][/\ ChangedFields \subseteq MutableFields
       /\ Cardinality(ChangedFields) <= 1
       /\ "broken_extensions" \in ChangedFields => log' # log
       /\ "no_bytecode_modules" \in ChangedFields => exempt_log' # exempt_log]_vars

\* a policy that setters changed without any registration
C12_Witness ==
    /\ log = <<>> /\ exempt_log = <<>>
    /\ policy.resources_location = InMemory
    /\ policy.allow_in_memory_shared_library_loading
    /\ "readline" \in DOMAIN policy.preferred_extension_module_variants

-----------------------------------------------------------------------------
(* Claims about the __file__ audit, under SpecAudit.                       *)

CodingLatin1 ==
    <<"#", " ", "c", "o", "d", "i", "n", "g", ":", " ", "l", "a", "t", "i", "n", "-", "1">>

\* C7: a resource whose in-memory source starts with the line "# coding: latin-1"
\* and uses __file__ on the next line is named by the audit; a resource with the
\* same declaration, no __file__ in its source and no bytecode compiled from
\* source is not named.
C7_Latin1SourceIsAudited ==
    (audit.done /\ audit.ok) =>
        \A n \in DOMAIN collector.resources :
            LET m == collector.resources[n]
                lines == SplitLines(m.in_memory_source.data)
            IN  (m.in_memory_source.tag # "None" /\ Len(lines) >= 2 /\ lines[1] = CodingLatin1) =>
                    /\ Contains(lines[2], DunderFile) => n \in audit.names
                    /\ (~Contains(m.in_memory_source.data, DunderFile) /\ BytecodeSlots(m) = {})
                          => n \notin audit.names

\* the audit names app for its latin-1 source alone and does not name pkg.mod
C7_Witness ==
    /\ audit.done /\ audit.ok
    /\ DOMAIN collector.resources = {"app", "pkg.mod"}
    /\ collector.resources["app"] =
          Resource(Memory(SrcLatin1AccentDunder), NoProvider, NoProvider, NoProvider)
    /\ collector.resources["pkg.mod"].in_memory_source = Memory(SrcLatin1Plain)
    /\ audit.names = {"app"}

\* C19: a resource name in the registry of the collector stays in it: no
\* operation on the collector deletes or renames an entry.
C19_RegistryKeepsNames ==
    [][\A n \in DOMAIN collector.resources : n \in DOMAIN collector'.resources]_vars

\* the audit has run over a registry of two resources and both are still there
C19_Witness ==
    /\ audit.done
    /\ DOMAIN collector.resources = {"app", "pkg.mod"}

\* the encoding name a source declares: the label after "coding:" or "coding="
\* in the first of its first two lines to hold a declaration, utf-8 without one
DeclaredEncoding(source) ==
    LET lines == SplitLines(source)
        hits == {i \in 1..Len(lines) : i <= 2 /\ RE_CODING(lines[i]).found}
    IN  IF hits = {} THEN <<"u", "t", "f", "-", "8">>
        ELSE LET i == CHOOSE x \in hits : \A y \in hits : x <= y
             IN  SubSeq(lines[i], RE_CODING(lines[i]).group, RE_CODING(lines[i]).end)

\* C25: the encoding the audit derives for a source is utf-8 by default, and for
\* a source whose first or second line declares "coding: N" or "coding=N" it is
\* exactly the name N; a declaration on a later line is ignored.
C25_EncodingIsDeclaredName ==
    (audit.done /\ audit.ok) =>
        \A n \in DOMAIN collector.resources :
            LET src == collector.resources[n].in_memory_source
            IN  src.tag # "None" => python_source_encoding(src.data) = DeclaredEncoding(src.data)

\* the locations of the bytecode slots of a module that hold a provider of
\* either kind
FilledBytecodeSlots(module) ==
    {b.location : b \in {x \in {module.in_memory_bytecode, module.in_memory_bytecode_opt1,
                                module.in_memory_bytecode_opt2} :
                            x.kind \in {"FromSource", "Provided"}}}

\* C26 as claimed: the audit names a resource exactly when its in-memory source
\* or one of its three bytecode slots, compiled from source or pre-provided, has
\* content with __file__ in it.
C26_EverySlotScanned ==
    (audit.done /\ audit.ok) =>
        \A n \in DOMAIN collector.resources :
            LET m == collector.resources[n]
            IN  n \in audit.names <=>
                    \/ m.in_memory_source.tag # "None" /\ has_dunder_file(m.in_memory_source.data)
                    \/ \E fd \in FilledBytecodeSlots(m) : has_dunder_file(fd.data)

\* C26, amended: the audit names a resource exactly when its in-memory source,
\* or the source of one of its three bytecode slots that is compiled from
\* source, has content in which has_dunder_file finds __file__. A slot filled
\* with pre-provided bytecode is not scanned.
C26_SourceBackedSlotsScanned ==
    (audit.done /\ audit.ok) =>
        \A n \in DOMAIN collector.resources :
            LET m == collector.resources[n]
            IN  n \in audit.names <=>
                    \/ m.in_memory_source.tag # "None" /\ has_dunder_file(m.in_memory_source.data)
                    \/ \E b \in {m.in_memory_bytecode, m.in_memory_bytecode_opt1,
                                 m.in_memory_bytecode_opt2} :
                          b.kind = "FromSource" /\ has_dunder_file(b.location.data)

\* the audit ran over a resource whose only content with __file__ is
\* pre-provided bytecode, and did not name it
C26_Witness ==
    /\ audit.done /\ audit.ok
    /\ "app" \in DOMAIN collector.resources
    /\ collector.resources["app"] =
          Resource(NoData, Provided(Memory(SrcPlainDunder)), NoProvider, NoProvider)
    /\ "app" \notin audit.names

\* the modules with __file__ in their in-memory source or in the source of a
\* bytecode slot compiled from source
Flagged(c) ==
    {n \in DOMAIN c.resources :
        LET m == c.resources[n]
        IN  \/ m.in_memory_source.tag # "None" /\ has_dunder_file(m.in_memory_source.data)
            \/ \E b \in {m.in_memory_bytecode, m.in_memory_bytecode_opt1, m.in_memory_bytecode_opt2} :
                  b.kind = "FromSource" /\ has_dunder_file(b.location.data)}

\* some content the audit reads is a file that cannot be read
UnreadableContent(c) ==
    \E n \in DOMAIN c.resources :
        LET m == c.resources[n]
        IN  \/ m.in_memory_source.tag = "Path" /\ ~m.in_memory_source.readable
            \/ \E b \in {m.in_memory_bytecode, m.in_memory_bytecode_opt1, m.in_memory_bytecode_opt2} :
                  b.kind = "FromSource" /\ b.location.tag = "Path" /\ ~b.location.readable

\* C21 as claimed: the audit step never makes to_embedded_python_context return
\* an error.
C21_AuditNeverFails ==
    context.pc # "failed"

\* C21, amended: what the audit finds is only logged. With all content readable
\* the assembler goes on past the audit whatever was found, having logged one
\* warning for every module found and three more when there is one. The audit
\* step makes the assembler return an error exactly when content it scans
\* cannot be read.
C21_FindingsAreWarnings ==
    context.pc \notin {"idle", "audit"} =>
        /\ context.pc = "failed" <=> UnreadableContent(collector)
        /\ context.pc = "resources" <=> ~UnreadableContent(collector)
        /\ context.pc = "resources" =>
              /\ context.file_seen <=> Flagged(collector) # {}
              /\ Len(context.warnings) =
                    IF Flagged(collector) = {} THEN 0 ELSE Cardinality(Flagged(collector)) + 3
              /\ \A n \in Flagged(collector) :
                    \E i \in 1..Len(context.warnings) : context.warnings[i] = <<"contains __file__", n>>

\* two modules were found, five warnings logged, and the assembly went on
C21_Witness ==
    /\ context.pc = "resources" /\ context.file_seen
    /\ Flagged(collector) = {"app", "pkg.mod"}
    /\ Len(context.warnings) = 5

-----------------------------------------------------------------------------
(* Claims about the policy of a distribution and the collector, under      *)
(* SpecBuild.                                                              *)

\* C13: the policy PythonPackagingPolicy::default() returns has no preferred
\* variant, no denylisted extension, no bytecode-exempt module, bytecode level 0
\* on and levels 1 and 2 off, and no primary location set.
C13_DefaultPolicy ==
    build.pc = "location" =>
        /\ DOMAIN policy.preferred_extension_module_variants = {}
        /\ DOMAIN policy.broken_extensions = {}
        /\ policy.no_bytecode_modules = {}
        /\ policy.bytecode_optimize_level_zero
        /\ ~policy.bytecode_optimize_level_one
        /\ ~policy.bytecode_optimize_level_two
        /\ policy.resources_location.tag = "Unset"

\* the default policy of a Linux distribution, before anything is registered
C13_Witness ==
    /\ build.pc = "location" /\ build.dist.target_triple = "x86_64-unknown-linux-gnu"
    /\ policy.bytecode_optimize_level_zero /\ log = <<>> /\ exempt_log = <<>>

\* the steps after create_packaging_policy has returned
PolicyCreated == {"link_mode", "allowed_locations", "extension_locations", "collector", "core_state"}

CapabilityTaken == {"allowed_locations", "extension_locations", "collector", "core_state"}

\* C15: a distribution loads shared libraries from memory exactly when its
\* triple contains pc-windows, its symbol visibility is dllexport and its
\* extension loading lists shared-library.
C15_InMemoryLoadability ==
    build.pc \in CapabilityTaken =>
        (build.supports <=>
            /\ build.dist.target_triple \in {"i686-pc-windows-gnu", "i686-pc-windows-msvc",
                                             "x86_64-pc-windows-gnu", "x86_64-pc-windows-msvc"}
            /\ build.dist.python_symbol_visibility = "dllexport"
            /\ \E k \in 1..Len(build.dist.extension_module_loading) :
                  build.dist.extension_module_loading[k] = "shared-library")

\* a Windows distribution with shared-library loading was found capable
C15_Witness ==
    /\ build.pc = "allowed_locations" /\ build.supports
    /\ build.dist.target_triple = "i686-pc-windows-gnu"
    /\ build.dist.extension_module_loading = <<"shared-library">>

\* C16: extension modules are loadable from files exactly when the extension
\* loading of the manifest lists shared-library, whatever the triple and the
\* symbol visibility: the collector is allowed RelativePath for extension
\* modules in exactly that case.
C16_FileLoadability ==
    build.pc \in {"collector", "core_state"} =>
        ((\E k \in 1..Len(build.allowed_extension_module_locations) :
              build.allowed_extension_module_locations[k] = "RelativePath")
          <=> (\E k \in 1..Len(build.dist.extension_module_loading) :
                  build.dist.extension_module_loading[k] = "shared-library"))

\* a Linux distribution with default visibility is file-loadable
C16_Witness ==
    /\ build.pc = "collector"
    /\ build.dist.target_triple = "aarch64-unknown-linux-gnu"
    /\ build.dist.python_symbol_visibility = "global-default"
    /\ build.allowed_extension_module_locations = <<"RelativePath">>

\* C17: the denylist of a created policy is the same for every distribution:
\* _crypt and nis for each of the three Linux triples, curses, _curses_panel and
\* readline for each of the two macOS triples, and no entry for any other triple.
C17_DenylistIsFixedTable ==
    build.pc \in PolicyCreated =>
        /\ DOMAIN policy.broken_extensions =
              {"aarch64-unknown-linux-gnu", "x86_64-unknown-linux-gnu", "x86_64-unknown-linux-musl",
               "aarch64-apple-darwin", "x86_64-apple-darwin"}
        /\ \A t \in {"aarch64-unknown-linux-gnu", "x86_64-unknown-linux-gnu", "x86_64-unknown-linux-musl"} :
              policy.broken_extensions[t] = <<"_crypt", "nis">>
        /\ \A t \in {"aarch64-apple-darwin", "x86_64-apple-darwin"} :
              policy.broken_extensions[t] = <<"curses", "_curses_panel", "readline">>

\* the policy of a Windows distribution, created, holds the Linux and macOS lists
C17_Witness ==
    /\ build.pc = "link_mode" /\ build.dist.target_triple = "x86_64-pc-windows-msvc"
    /\ Len(log) = 12
    /\ "x86_64-pc-windows-msvc" \notin DOMAIN policy.broken_extensions

\* C18: the collector permits new builtin extension modules exactly when
\* libpython is linked statically.
C18_NewBuiltinsIffStatic ==
    /\ build.pc \in {"collector", "core_state"} =>
          (build.allow_new_builtin_extension_modules <=> build.link_mode = "Static")
    /\ build.pc = "core_state" =>
          (collector.allow_new_builtin_extension_modules <=> build.link_mode = "Static")

\* the collector of a statically linked build permits them
C18_Witness ==
    /\ build.pc = "core_state" /\ build.link_mode = "Static"
    /\ collector.allow_new_builtin_extension_modules

\* C20: the collector constructed holds an empty registry, and the allowed
\* locations, the allowed extension-module locations, the builtin permission and
\* the file permission it was given.
C20_CollectorAsConstructed ==
    build.pc = "core_state" =>
        /\ DOMAIN collector.resources = {}
        /\ collector.allowed_locations = build.allowed_locations
        /\ collector.allowed_extension_module_locations = build.allowed_extension_module_locations
        /\ collector.allow_new_builtin_extension_modules = build.allow_new_builtin_extension_modules
        /\ collector.allow_files = policy.allow_files

\* a collector constructed with two different location lists
C20_Witness ==
    /\ build.pc = "core_state"
    /\ collector.allowed_locations = <<"InMemory", "RelativePath">>
    /\ collector.allowed_extension_module_locations = <<"RelativePath">>
    /\ DOMAIN collector.resources = {}

\* C29: the extension-module locations handed to the collector hold InMemory
\* only when the distribution supports in-memory loading and the policy allows
\* it, and RelativePath exactly when extension modules are loadable from files.
\* The policy create_packaging_policy returns never allows in-memory loading, so
\* InMemory is not an allowed extension-module location for any distribution.
C29_NoInMemoryExtensionModules ==
    /\ build.pc \in {"location", "broken", "no_bytecode"} \cup PolicyCreated
          => ~policy.allow_in_memory_shared_library_loading
    /\ build.pc \in {"collector", "core_state"} =>
          /\ "InMemory" \notin Range(build.allowed_extension_module_locations)
          /\ "RelativePath" \in Range(build.allowed_extension_module_locations)
                <=> "shared-library" \in Range(build.dist.extension_module_loading)
          /\ Len(build.allowed_extension_module_locations) <= 1

\* the locations were computed for a distribution that loads shared libraries
\* from memory, and hold RelativePath alone
C29_Witness ==
    /\ build.pc = "core_state" /\ build.supports
    /\ build.dist.python_symbol_visibility = "dllexport"
    /\ build.allowed_extension_module_locations = <<"RelativePath">>
    /\ collector.allowed_extension_module_locations = <<"RelativePath">>

\* the stages run so far are the first stages of the build in their order, every
\* stage but the last returned Ok, the build has returned the error exactly when
\* the last one returned one, and nothing of a later stage exists
AbortsAtFailure ==
    build.pc # "idle" =>
        /\ Len(build.results) <= Len(StageOrder)
        /\ \A i \in 1..Len(build.results) :
              /\ build.results[i][1] = StageOrder[i]
              /\ build.results[i][2] # "ok" => i = Len(build.results)
        /\ build.pc = "failed" <=>
              (build.results # <<>> /\ build.results[Len(build.results)][2] = "err")
        /\ build.pc = "done" <=> Len(build.results) = Len(StageOrder) /\ build.results[7][2] = "ok"
        /\ build.pc \in {"failed", "panicked"} =>
              /\ Len(build.results) <= 3 => log = <<>> /\ exempt_log = <<>>
              /\ Len(build.results) <= 4 => build.interpreter_config.profile = "unset"
              /\ Len(build.results) <= 6 => context.pc = "idle"

\* C22 as claimed: a failed stage ends the build with its error, no later stage
\* runs, and what earlier stages produced is not left behind: the destination
\* is as it was before the build.
C22_NothingLeftBehind ==
    /\ AbortsAtFailure
    /\ build.pc = "failed" => build.dest_dir = build.dest_before

\* C22, amended: a stage that returns an error ends the build with that error
\* and no later stage runs. No stage removes what an earlier one produced: when
\* a stage after the first fails, the destination directory the first stage
\* created is still there.
C22_FailureAborts ==
    /\ AbortsAtFailure
    /\ build.pc = "failed" =>
          build.dest_dir = IF build.results[1][2] = "ok" THEN "dir" ELSE build.dest_before

\* distribution resolution failed after the destination directory, absent
\* before, was created
C22_Witness ==
    /\ build.pc = "failed" /\ Len(build.results) = 3
    /\ build.dest_before = "absent" /\ build.dest_dir = "dir"
    /\ log = <<>> /\ context.pc = "idle"

====
